---- MODULE Spec2Model ----
(***************************************************************************)
(* Model of the transaction client of pytpcc/drivers/lsddriver.py (class   *)
(* client) and of the part of LsdDriver that drives it.  The client's      *)
(* operations are modelled from the code that Python executes: the bodies  *)
(* kept inside ''' string literals are not code.  The future graph exists  *)
(* only in such literals; it is modelled from that text in a section of    *)
(* its own and explored by a specification of its own, SpecFuture.         *)
(***************************************************************************)
EXTENDS Integers, Sequences, FiniteSets, TLC

\* ------------------------------------------------------------------ bounds
MaxCounter == 2          \* _transaction_counter is explored up to this value
MaxKlist == 2            \* longest key list handed to multiget
MaxInvocations == 2      \* business transactions the harness invokes
MaxNodes == 2            \* most nodes one transaction appends to fset
MaxPredicates == 1       \* most predicates one transaction appends to pset
MaxTxns == 2             \* Results.txn_id is explored up to this value
MaxAborts == 2           \* a count of txn_aborts is explored up to this value

\* ------------------------------------------------------------ input sets
Clients == {"c1", "c2"}                 \* client instances
Uuids == {"0a-1", "0a-2"}               \* renderings of uuid.uuid4()
Keys == {"k1", "k2"}                    \* store keys used by the caller
Values == {"v1", "v2"}                  \* values written by the caller

\* the dict _rwset_index is a function from the keys it holds to None or to
\* the position in rwset of the entry object the key refers to
None == 0

VARIABLES
    id,                   \* client._id
    transaction_counter,  \* client._transaction_counter
    rwset_index,          \* client._rwset_index
    transaction,          \* client._transaction
    database,             \* keys the store holds after an accepted add
    phase,                \* where each client stands in begin/commit/abort
    last,                 \* the most recent client call and what it did
    driver,               \* LsdDriver: position and locals of the running do* method
    began,                \* the ids the driver's invocations began under
    results               \* util.results.Results: the harness's recorder

client_vars == <<id, transaction_counter, rwset_index, transaction, database, phase, last>>
vars == <<id, transaction_counter, rwset_index, transaction, database, phase, last,
          driver, began, results>>

\* ----------------------------------------------------------- data model
\* api_pb2.transaction() as constructed: every field at its default
EmptyTransaction ==
    [id |-> "", rwset |-> <<>>, fwset |-> <<>>, pset |-> <<>>,
     num_futures |-> 0, fset |-> <<>>]

\* {}
EmptyIndex == [k \in {} |-> None]

\* d[key] = value on a dict
DictSet(d, ks, v) == [k \in DOMAIN d \cup ks |-> IF k \in ks THEN v ELSE d[k]]

Range(s) == {s[i] : i \in 1..Len(s)}

\* key lists of at most MaxKlist keys, repetitions included
Klists == UNION {[1..n -> Keys] : n \in 0..MaxKlist}

\* keys whose dict value is an rwset entry
Written(idx) == {k \in DOMAIN idx : idx[k] # None}

\* a begin that left the client identifier out of the id
TxIdSeqOnly(n, u) == ToString(n) \o "-"

\* '{}-{}'.format(self._transaction_counter, self._id)
TxId(n, u) == ToString(n) \o "-" \o u

\* self._transaction.SerializeToString(): the message's fields in order
SerializeToString(t) == <<t.id, t.rwset, t.fwset, t.pset, t.num_futures, t.fset>>

\* the value Python's None stands for in a returned (exists, value) pair
NoValue == "None"

\* values the store may hold under a key
StoreValues == {"s1"}

\* replies of gets_many for the keys ks: the keys found, with their values
RepliesOf(ks, vals) == UNION {[S -> vals] : S \in SUBSET ks}
Replies(ks) == RepliesOf(ks, StoreValues)

\* result[key] = (exists, value) for each requested key
Returned(ks, reply) ==
    {<<k, k \in DOMAIN reply, IF k \in DOMAIN reply THEN reply[k] ELSE NoValue>> : k \in ks}

\* one call on the store connection self._database
StoreCall(cmd, args, payload) == [cmd |-> cmd, args |-> args, payload |-> payload]

\* the record of one client call
Call(c, op, keys, value, calls, added, ret, result, why) ==
    [client |-> c, op |-> op, keys |-> keys, value |-> value,
     calls |-> calls, added |-> added, ret |-> ret,
     result |-> result, why |-> why, found |-> {},
     f |-> [type |-> "NONE", at |-> -1], transient |-> FALSE,
     returns |-> [kind |-> "NoneType", repr |-> "None"],
     pre |-> [phase |-> phase[c], index |-> rwset_index[c],
              id |-> transaction[c].id, counter |-> transaction_counter[c]]]

\* the record of a call that read the store: the keys the reply holds
Found(call, reply) == [call EXCEPT !.found = DOMAIN reply]

NoCall ==
    [client |-> "", op |-> "", keys |-> <<>>, value |-> "",
     calls |-> <<>>, added |-> FALSE, ret |-> {},
     result |-> "", why |-> "", found |-> {},
     f |-> [type |-> "NONE", at |-> -1], transient |-> FALSE,
     returns |-> [kind |-> "NoneType", repr |-> "None"],
     pre |-> [phase |-> "IDLE", index |-> EmptyIndex, id |-> "", counter |-> 1]]

\* Results.__init__: no transaction started, every counter at 0; started,
\* aborted and counted keep the ids handed out, the ids abortTransaction
\* accepted and the ids stopTransaction counted
TransactionTypes == {"DELIVERY", "PAYMENT"}
NewResults ==
    [txn_id |-> 0,
     txn_counters |-> [t \in TransactionTypes |-> 0],
     txn_times |-> [t \in TransactionTypes |-> 0],
     txn_aborts |-> [t \in TransactionTypes |-> 0],
     running |-> << >>,
     started |-> {}, aborted |-> {}, counted |-> {},
     call |-> [op |-> "", id |-> 0, result |-> ""]]

\* the driver between two business transactions
IdleDriver ==
    [pc |-> "idle", invocation |-> 0, returned |-> "",
     w_id |-> 0, d_id |-> 0, o_carrier_id |-> 0, ol_delivery_d |-> "",
     o_id |-> 0, c_id |-> 0, o_ol_cnt |-> 0, ol_number |-> 0, ol_total |-> 0,
     mg_res |-> {},
     method |-> "", tid |-> 0, threshold |-> 0, c_last |-> "", c_ids |-> <<>>,
     d_next_o_id |-> 0, ol_numbers |-> << >>, i_ids |-> {},
     h_amount |-> 0, h_date |-> "", c_w_id |-> 0, c_d_id |-> 0, c_credit |-> "",
     w_ytd |-> 0, d_ytd |-> 0, c_data |-> ""]

\* ------------------------------------------------------------------ Init
\* client.__init__: a fresh uuid, counter 1, empty index, default message.
\* uuid4 values of different instances are different.
InitClients ==
    /\ id \in {f \in [Clients -> Uuids] : \A a, b \in Clients : a # b => f[a] # f[b]}
    /\ transaction_counter = [c \in Clients |-> 1]
    /\ rwset_index = [c \in Clients |-> EmptyIndex]
    /\ transaction = [c \in Clients |-> EmptyTransaction]
    /\ database = {}
    /\ phase = [c \in Clients |-> "IDLE"]
    /\ last = NoCall
    /\ began = {}

\* where clients are used on their own, no driver and no recorder exist
NoDriver == [pc |-> "none"]
NoRecorder == [txn_id |-> -1]

Init == InitClients /\ driver = NoDriver /\ results = NoRecorder

\* LsdDriver.loadConfig: the driver holds one client; no recorder
InitDriver == InitClients /\ driver = IdleDriver /\ results = NoRecorder

\* Results.__init__, beside clients that are not called
InitResults == InitClients /\ driver = NoDriver /\ results = NewResults

\* ------------------------------------------------------- client.begin
\* the message after begin: a new id, every repeated field emptied
Cleared(t, tid) ==
    [t EXCEPT !.id = tid, !.rwset = <<>>, !.fwset = <<>>, !.pset = <<>>,
              !.num_futures = 0, !.fset = <<>>]

\* a begin that kept the dict of the previous attempt
KeptIndex(idx) == idx

\* self._rwset_index = {}
FreshIndex(idx) == EmptyIndex

\* a begin on a dict of accessed keys that all instances share
BeginSharedIndex(c) ==
    LET tid == TxId(transaction_counter[c], id[c]) IN
    /\ rwset_index' = [other \in Clients |-> FreshIndex(rwset_index[other])]
    /\ transaction' = [transaction EXCEPT ![c] = Cleared(@, tid)]
    /\ phase' = [phase EXCEPT ![c] = "ACTIVE"]
    /\ last' = Call(c, "begin", <<>>, "",
                    <<StoreCall("cas", <<tid, "", "0">>, <<>>)>>,
                    FALSE, {}, "ok", "")
    /\ UNCHANGED <<id, transaction_counter, database>>

\* def begin(self)
Begin(c) ==
    LET tid == TxId(transaction_counter[c], id[c]) IN
    /\ rwset_index' = [rwset_index EXCEPT ![c] = FreshIndex(@)]
    /\ transaction' = [transaction EXCEPT ![c] = Cleared(@, tid)]
    /\ phase' = [phase EXCEPT ![c] = "ACTIVE"]
    /\ last' = Call(c, "begin", <<>>, "",
                    <<StoreCall("cas", <<tid, "", "0">>, <<>>)>>,
                    FALSE, {}, "ok", "")
    /\ UNCHANGED <<id, transaction_counter, database>>

\* --------------------------------------------------------- client.get
\* an assertion that only looked for keys with an rwset entry
GetAllowedUnlessWritten(idx, k) == k \notin DOMAIN idx \/ idx[k] = None

\* assert key not in self._rwset_index
GetAllowed(idx, k) == k \notin DOMAIN idx

GetR(c, k, reply) ==
    IF ~GetAllowed(rwset_index[c], k)
    THEN /\ last' = Call(c, "get", <<k>>, "", <<>>, FALSE, {}, "AssertionError", "")
         /\ UNCHANGED <<id, transaction_counter, rwset_index, transaction,
                        database, phase>>
    ELSE /\ rwset_index' = [rwset_index EXCEPT ![c] = DictSet(@, {k}, None)]
         /\ last' = Found(Call(c, "get", <<k>>, "",
                         <<StoreCall("gets_many", <<transaction[c].id, "tx", k>>, <<>>)>>,
                         FALSE, Returned({k}, reply), "ok", ""), reply)
         /\ UNCHANGED <<id, transaction_counter, transaction, database, phase>>

\* the store is asked, and answers, only when the assertion passed
Get(c, k) ==
    \E reply \in (IF GetAllowed(rwset_index[c], k) THEN Replies({k}) ELSE {<< >>}) :
        GetR(c, k, reply)

\* ---------------------------------------------------- client.multiget
\* assert not filter(lambda k: k in self._rwset_index, klist)
MultigetAllowed(idx, klist) == {i \in 1..Len(klist) : klist[i] \in DOMAIN idx} = {}

\* a multiget that marked the keys one by one and so left the fresh keys
\* of klist marked when it failed
MultigetRMarksFresh(c, klist, reply) ==
    IF ~MultigetAllowed(rwset_index[c], klist)
    THEN /\ rwset_index' = [rwset_index EXCEPT ![c] = DictSet(@, Range(klist) \ DOMAIN @, None)]
         /\ last' = Call(c, "multiget", klist, "", <<>>, FALSE, {}, "AssertionError", "")
         /\ UNCHANGED <<id, transaction_counter, transaction, database, phase>>
    ELSE /\ rwset_index' = [rwset_index EXCEPT ![c] = DictSet(@, Range(klist), None)]
         /\ last' = Found(Call(c, "multiget", klist, "",
                         <<StoreCall("gets_many", <<transaction[c].id, "tx">> \o klist, <<>>)>>,
                         FALSE, Returned(Range(klist), reply), "ok", ""), reply)
         /\ UNCHANGED <<id, transaction_counter, transaction, database, phase>>

MultigetR(c, klist, reply) ==
    IF ~MultigetAllowed(rwset_index[c], klist)
    THEN /\ last' = Call(c, "multiget", klist, "", <<>>, FALSE, {}, "AssertionError", "")
         /\ UNCHANGED <<id, transaction_counter, rwset_index, transaction,
                        database, phase>>
    ELSE /\ rwset_index' = [rwset_index EXCEPT ![c] = DictSet(@, Range(klist), None)]
         /\ last' = Found(Call(c, "multiget", klist, "",
                         <<StoreCall("gets_many", <<transaction[c].id, "tx">> \o klist, <<>>)>>,
                         FALSE, Returned(Range(klist), reply), "ok", ""), reply)
         /\ UNCHANGED <<id, transaction_counter, transaction, database, phase>>

\* the store is asked, and answers, only when the assertion passed
Multiget(c, klist) ==
    \E reply \in (IF MultigetAllowed(rwset_index[c], klist)
                  THEN Replies(Range(klist)) ELSE {<< >>}) :
        MultigetR(c, klist, reply)

\* ------------------------- client.get_notxn and client.multiget_notxn
\* a read outside the transaction that marked its keys as accessed
NotxnIndexMarks(idx, klist) == DictSet(idx, Range(klist), None)

\* neither method assigns to self._rwset_index
NotxnIndex(idx, klist) == idx

\* a read outside the transaction that asserted nothing
NotxnFoundAny(klist, reply) == TRUE

\* assert exists, assert key in replies: every requested key was found
NotxnFound(klist, reply) == \A i \in 1..Len(klist) : klist[i] \in DOMAIN reply

\* a read outside the transaction that sent no transaction id
NotxnRNoId(c, op, klist, reply) ==
    LET found == NotxnFound(klist, reply) IN
    /\ rwset_index' = [rwset_index EXCEPT ![c] = NotxnIndex(@, klist)]
    /\ last' = Found(Call(c, op, klist, "",
                    <<StoreCall("gets_many", <<"notx">> \o klist, <<>>)>>,
                    FALSE, IF found THEN Returned(Range(klist), reply) ELSE {},
                    IF found THEN "ok" ELSE "AssertionError", ""), reply)
    /\ UNCHANGED <<id, transaction_counter, transaction, database, phase>>

NotxnR(c, op, klist, reply) ==
    LET found == NotxnFound(klist, reply) IN
    /\ rwset_index' = [rwset_index EXCEPT ![c] = NotxnIndex(@, klist)]
    /\ last' = Found(Call(c, op, klist, "",
                    <<StoreCall("gets_many", <<transaction[c].id, "notx">> \o klist, <<>>)>>,
                    FALSE, IF found THEN Returned(Range(klist), reply) ELSE {},
                    IF found THEN "ok" ELSE "AssertionError", ""), reply)
    /\ UNCHANGED <<id, transaction_counter, transaction, database, phase>>

\* reply = self._database.gets_many([self._transaction.id, 'notx', key])
GetNotxn(c, k) == \E reply \in Replies({k}) : NotxnR(c, "get_notxn", <<k>>, reply)

\* replies = self._database.gets_many([self._transaction.id, 'notx'] + klist)
MultigetNotxn(c, klist) ==
    \E reply \in Replies(Range(klist)) : NotxnR(c, "multiget_notxn", klist, reply)

\* ------------------------------------- client._write, put and remove
Entry(k, type, wt, v) ==
    [key |-> k, type |-> type, w |-> [type |-> wt, is_future |-> FALSE, value |-> v]]

\* a _write that adds an entry whatever the dict holds for the key
WriteAlwaysAdds(idx, rws, wt, k, v) ==
    [index |-> DictSet(idx, {k}, Len(rws) + 1),
     rwset |-> Append(rws, Entry(k, IF k \in DOMAIN idx THEN "READ_WRITE" ELSE "WRITE", wt, v))]

\* a _write that, for a key already written, dropped the entry and added a
\* new one at the end
WriteMovesEntry(idx, rws, wt, k, v) ==
    IF k \in DOMAIN idx /\ idx[k] # None
    THEN LET p == idx[k]
             kept == SubSeq(rws, 1, p - 1) \o SubSeq(rws, p + 1, Len(rws))
         IN  [index |-> [x \in DOMAIN idx |->
                            IF x = k THEN Len(rws)
                            ELSE IF idx[x] > p THEN idx[x] - 1 ELSE idx[x]],
              rwset |-> Append(kept, Entry(k, "READ_WRITE", wt, v))]
    ELSE WriteAlwaysAdds(idx, rws, wt, k, v)

\* the dict and the rwset after _write(write_type, key, value)
Write(idx, rws, wt, k, v) ==
    IF k \in DOMAIN idx
    THEN IF idx[k] = None
         THEN [index |-> DictSet(idx, {k}, Len(rws) + 1),
               rwset |-> Append(rws, Entry(k, "READ_WRITE", wt, v))]
         ELSE [index |-> idx,
               rwset |-> [rws EXCEPT ![idx[k]] = Entry(k, "READ_WRITE", wt, v)]]
    ELSE [index |-> DictSet(idx, {k}, Len(rws) + 1),
          rwset |-> Append(rws, Entry(k, "WRITE", wt, v))]

WriteCall(c, op, wt, k, v) ==
    LET w == Write(rwset_index[c], transaction[c].rwset, wt, k, v) IN
    /\ rwset_index' = [rwset_index EXCEPT ![c] = w.index]
    /\ transaction' = [transaction EXCEPT ![c].rwset = w.rwset]
    /\ last' = Call(c, op, <<k>>, v, <<>>, FALSE, {}, "ok", "")
    /\ UNCHANGED <<id, transaction_counter, database, phase>>

\* self._write(api_pb2.write.SET, key, value)
Put(c, k, v) == WriteCall(c, "put", "SET", k, v)

\* self._write(api_pb2.write.DELETE, key, value='')
Remove(c, k) == WriteCall(c, "remove", "DELETE", k, "")

\* ----------------------------- client.commit, abort, _done and _retry
\* a _done that forgot the counter, and one that counted twice
DoneKeeps(n) == n
DoneTwice(n) == n + 2

\* self._transaction_counter += 1
Done(n) == n + 1

\* a _retry that advanced the counter before raising
RetryAdvances(n, why) == [counter |-> n + 1, result |-> "transaction_aborted", why |-> why]

\* raise transaction_aborted(why): the counter is not touched
Retry(n, why) == [counter |-> n, result |-> "transaction_aborted", why |-> why]

\* self._database.add(self._transaction.id, pb, expire=0, noreply=False)
AddRequest(t) == StoreCall("add", <<t.id>>, <<SerializeToString(t)>>)

\* the store's answers to add: never true for a key it already holds
AddReplies(key) == IF key \in database THEN {FALSE} ELSE {TRUE, FALSE}

\* a commit that reported success whatever the store answered
OutcomeAlwaysDone(committed, n) == [counter |-> n + 1, result |-> "ok", why |-> ""]

\* what commit() makes of the store's answer
Outcome(committed, n) ==
    IF committed
    THEN [counter |-> Done(n), result |-> "ok", why |-> ""]
    ELSE Retry(n, "commit")

Ended(ph, how) == IF ph = "ACTIVE" THEN how ELSE "INVALID"

Commit(c) ==
    /\ transaction_counter[c] < MaxCounter
    /\ \E committed \in AddReplies(transaction[c].id) :
         LET out == Outcome(committed, transaction_counter[c]) IN
         /\ database' = IF committed THEN database \cup {transaction[c].id} ELSE database
         /\ transaction_counter' = [transaction_counter EXCEPT ![c] = out.counter]
         /\ phase' = [phase EXCEPT ![c] =
                Ended(@, IF committed THEN "COMMITTED" ELSE "ABORTED_RETRYABLE")]
         /\ last' = Call(c, "commit", <<>>, "", <<AddRequest(transaction[c])>>,
                         committed, {}, out.result, out.why)
         /\ UNCHANGED <<id, rwset_index, transaction>>

\* an abort that ended the way a rejected commit does
AbortRaises(c) ==
    /\ transaction_counter[c] < MaxCounter
    /\ phase' = [phase EXCEPT ![c] = Ended(@, "ABORTED_RETRYABLE")]
    /\ last' = Call(c, "abort", <<>>, "", <<>>, FALSE, {}, "transaction_aborted", "abort")
    /\ UNCHANGED <<id, transaction_counter, rwset_index, transaction, database>>

\* def abort(self): self._done()
Abort(c) ==
    /\ transaction_counter[c] < MaxCounter
    /\ transaction_counter' = [transaction_counter EXCEPT ![c] = Done(@)]
    /\ phase' = [phase EXCEPT ![c] = Ended(@, "ABORTED")]
    /\ last' = Call(c, "abort", <<>>, "", <<>>, FALSE, {}, "ok", "")
    /\ UNCHANGED <<id, rwset_index, transaction, database>>


\* ------------------------------------------------------ the future graph
\* The source keeps the future operations (client.__init__ lines 49-208),
\* get with lsd_api, is_true, _resolve, _keys, _binary_op and _unary_op
\* inside ''' string literals.  This section follows that text statement by
\* statement; the client of the sections above never reaches it.  The
\* operations on floats and slices (add_fd, sub_fd, mul_fd, trunc_fi,
\* substr_fs) have the body of add_fi_op with another expression for the
\* result and are left out, as are the commit and get_value of that text.

\* a Python value an operation returns: a str, a bool or None
PyStr(s) == [kind |-> "str", repr |-> s]
PyBool(b) == [kind |-> "bool", repr |-> IF b THEN "True" ELSE "False"]
PyNone == [kind |-> "NoneType", repr |-> "None"]

\* str(b) on a bool
BoolStr(b) == IF b THEN "True" ELSE "False"

\* int(x): the integers whose rendering the graph can produce
Ints == -20..40
IsInt(x) == x.kind = "bool" \/ (x.kind = "str" /\ \E n \in Ints : ToString(n) = x.repr)
IntOf(x) ==
    IF x.kind = "bool"
    THEN (IF x.repr = "True" THEN 1 ELSE 0)
    ELSE CHOOSE n \in Ints : ToString(n) = x.repr

\* left_param and right_param: a oneof of index and value
IndexParam(index) == [is_index |-> TRUE, index |-> index, value |-> ""]
ValueParam(value) == [is_index |-> FALSE, index |-> 0, value |-> value]

\* lsd_pb2.future as stored in fset: type, then rdata (key, data.existed,
\* data.value), binary_op (left_param, right_param) and unary_op (param),
\* with the resolved flag and the value of whichever sub-message is in use
FutureNode(type, key, left, right, param) ==
    [type |-> type, resolved |-> FALSE, value |-> "",
     key |-> key, existed |-> FALSE, data |-> "",
     left |-> left, right |-> right, param |-> param]

\* the object handed to an operation, by its type and its place: the node
\* transaction.fset[at], a handle whose index is at, or a future object
\* that is neither (at = -1)
NodeRef(fset, at) == [type |-> fset[at + 1].type, at |-> at]
Detached(type) == [type |-> type, at |-> -1]

\* fptr = lsd_pb2.future(); fptr.type = POINTER; fptr.index = index
Pointer(index) == [type |-> "POINTER", at |-> index]

\* what one operation did: the fset it left, the value it returned, whether
\* it raised and on which statement, and the nodes whose operation was
\* entered
Returns(fset, value, visited) ==
    [fset |-> fset, value |-> value, raised |-> FALSE, why |-> "",
     visited |-> visited]
Raises(fset, visited, why) ==
    [fset |-> fset, value |-> PyNone, raised |-> TRUE, why |-> why,
     visited |-> visited]

\* the value of a READ node's data: the bytes, or None when it did not exist
DataValue(existed, value) == IF existed THEN PyStr(value) ELSE PyNone

\* a read_op that marked the node resolved in transient calls too
read_op_marks(fset, at, transient, env) ==
    LET f == fset[at + 1] IN
    IF f.resolved
    THEN Returns(fset, DataValue(f.existed, f.data), {at})
    ELSE IF ~transient \/ f.key \notin DOMAIN env
    THEN Raises(fset, {at}, "assert")
    ELSE LET data == env[f.key] IN
         Returns([fset EXCEPT ![at + 1].existed = data.existed,
                              ![at + 1].data = data.value,
                              ![at + 1].resolved = TRUE],
                 DataValue(data.existed, data.value), {at})

\* def read_op(self, transaction, f, transient, env)
read_op(fset, at, transient, env) ==
    LET f == fset[at + 1] IN
    IF f.resolved
    THEN Returns(fset, DataValue(f.existed, f.data), {at})
    ELSE IF ~transient
    THEN Raises(fset, {at}, "assert transient")
    ELSE IF f.key \notin DOMAIN env
    THEN Raises(fset, {at}, "assert key in env")
    ELSE LET data == env[f.key] IN
         Returns([fset EXCEPT ![at + 1].existed = data.existed,
                              ![at + 1].data = data.value,
                              ![at + 1].resolved = ~transient],
                 DataValue(data.existed, data.value), {at})

\* a pointer_op that returned None where the code asserts
pointer_op_returns(fset, at, transient, env) == Returns(fset, PyNone, {})

\* def pointer_op(...): assert False
pointer_op(fset, at, transient, env) == Raises(fset, {}, "assert False")

\* def none_op(...): assert False
none_op(fset, at, transient, env) == Raises(fset, {}, "assert False")

\* the statement "result = ..." of each binary operation: the str stored
\* in binary_op.value, or raised when int() or + rejects an operand
Computed(value) == [raised |-> FALSE, value |-> value]
ComputeRaises == [raised |-> TRUE, value |-> ""]

\* an addition that took the operands as text
ResultAddConcats(left_result, right_result) ==
    IF left_result.kind = "str" /\ right_result.kind = "str"
    THEN Computed(left_result.repr \o right_result.repr)
    ELSE ComputeRaises

\* result = int(left_result) + int(right_result); str(result)
ResultAdd(left_result, right_result) ==
    IF IsInt(left_result) /\ IsInt(right_result)
    THEN Computed(ToString(IntOf(left_result) + IntOf(right_result)))
    ELSE ComputeRaises

\* result = int(left_result) - int(right_result); str(result)
ResultSub(left_result, right_result) ==
    IF IsInt(left_result) /\ IsInt(right_result)
    THEN Computed(ToString(IntOf(left_result) - IntOf(right_result)))
    ELSE ComputeRaises

\* result = int(left_result) >= int(right_result); str(result)
ResultGteq(left_result, right_result) ==
    IF IsInt(left_result) /\ IsInt(right_result)
    THEN Computed(BoolStr(IntOf(left_result) >= IntOf(right_result)))
    ELSE ComputeRaises

\* result = left_result + right_result on two str
ResultConcat(left_result, right_result) ==
    IF left_result.kind = "str" /\ right_result.kind = "str"
    THEN Computed(left_result.repr \o right_result.repr)
    ELSE ComputeRaises

Result(type, left_result, right_result) ==
    CASE type = "ADD_FI" -> ResultAdd(left_result, right_result)
      [] type = "SUB_FI" -> ResultSub(left_result, right_result)
      [] type = "GTEQ_FI" -> ResultGteq(left_result, right_result)
      [] type \in {"CONCAT_FS", "CONCAT_SF"} -> ResultConcat(left_result, right_result)

\* self._future_ops[f.type](self, transaction, f, transient, env)
RECURSIVE FutureOp(_, _, _, _)

\* the body add_fi_op, sub_fi_op, gteq_fi_op and concat_fs_op share: the
\* left operand is a node, the right operand a value
left_future_op(fset, at, transient, env) ==
    LET f == fset[at + 1] IN
    IF f.resolved
    THEN Returns(fset, PyStr(f.value), {at})
    ELSE LET left == FutureOp(fset, NodeRef(fset, f.left.index), transient, env)
             result == Result(f.type, left.value, PyStr(f.right.value))
             visited == left.visited \cup {at}
         IN  IF left.raised
             THEN Raises(left.fset, visited, left.why)
             ELSE IF result.raised
             THEN Raises(left.fset, visited, "result")
             ELSE Returns([left.fset EXCEPT ![at + 1].value = result.value,
                                            ![at + 1].resolved = ~transient],
                          PyStr(result.value), visited)

\* an add_fi_op that returned the sum without writing it back to the node
add_fi_op_forgets(fset, at, transient, env) ==
    LET r == left_future_op(fset, at, transient, env) IN
    [r EXCEPT !.fset[at + 1].resolved = fset[at + 1].resolved,
              !.fset[at + 1].value = fset[at + 1].value]

add_fi_op(fset, at, transient, env) == left_future_op(fset, at, transient, env)
sub_fi_op(fset, at, transient, env) == left_future_op(fset, at, transient, env)
\* a gteq_fi_op that marked the node resolved in transient calls too
gteq_fi_op_caches(fset, at, transient, env) ==
    LET r == left_future_op(fset, at, transient, env) IN
    IF r.raised THEN r ELSE [r EXCEPT !.fset[at + 1].resolved = TRUE]

gteq_fi_op(fset, at, transient, env) == left_future_op(fset, at, transient, env)
concat_fs_op(fset, at, transient, env) == left_future_op(fset, at, transient, env)

\* def concat_sf_op(...): the left operand is a value, the right a node
concat_sf_op(fset, at, transient, env) ==
    LET f == fset[at + 1] IN
    IF f.resolved
    THEN Returns(fset, PyStr(f.value), {at})
    ELSE LET right == FutureOp(fset, NodeRef(fset, f.right.index), transient, env)
             result == Result(f.type, PyStr(f.left.value), right.value)
             visited == right.visited \cup {at}
         IN  IF right.raised
             THEN Raises(right.fset, visited, right.why)
             ELSE IF result.raised
             THEN Raises(right.fset, visited, "result")
             ELSE Returns([right.fset EXCEPT ![at + 1].value = result.value,
                                             ![at + 1].resolved = ~transient],
                          PyStr(result.value), visited)

\* an exists_op that answered True whatever the READ node holds
exists_op_always(fset, at, transient, env) ==
    LET f == fset[at + 1] IN
    IF f.resolved
    THEN Returns(fset, PyBool(f.resolved), {at})
    ELSE LET param == FutureOp(fset, NodeRef(fset, f.param), transient, env)
             visited == param.visited \cup {at}
         IN  IF fset[f.param + 1].type # "READ" \/ param.raised
             THEN Raises(param.fset, visited, "assert")
             ELSE Returns([param.fset EXCEPT ![at + 1].value = BoolStr(TRUE),
                                             ![at + 1].resolved = ~transient],
                          PyStr(BoolStr(TRUE)), visited)

\* def exists_op(self, transaction, f, transient, env)
exists_op(fset, at, transient, env) ==
    LET f == fset[at + 1] IN
    IF f.resolved
    THEN Returns(fset, PyBool(f.resolved), {at})    \* return f.unary_op.resolved
    ELSE IF fset[f.param + 1].type # "READ"
    THEN Raises(fset, {at}, "assert param_f.type == READ")
    ELSE LET param == FutureOp(fset, NodeRef(fset, f.param), transient, env)
             result == param.fset[f.param + 1].existed
             visited == param.visited \cup {at}
         IN  IF param.raised
             THEN Raises(param.fset, visited, param.why)
             ELSE Returns([param.fset EXCEPT ![at + 1].value = BoolStr(result),
                                             ![at + 1].resolved = ~transient],
                          PyStr(BoolStr(result)), visited)

FutureOp(fset, f, transient, env) ==
    CASE f.type = "READ" -> read_op(fset, f.at, transient, env)
      [] f.type = "POINTER" -> pointer_op(fset, f.at, transient, env)
      [] f.type = "ADD_FI" -> add_fi_op(fset, f.at, transient, env)
      [] f.type = "SUB_FI" -> sub_fi_op(fset, f.at, transient, env)
      [] f.type = "CONCAT_FS" -> concat_fs_op(fset, f.at, transient, env)
      [] f.type = "CONCAT_SF" -> concat_sf_op(fset, f.at, transient, env)
      [] f.type = "GTEQ_FI" -> gteq_fi_op(fset, f.at, transient, env)
      [] f.type = "EXISTS" -> exists_op(fset, f.at, transient, env)
      [] f.type = "NONE" -> none_op(fset, f.at, transient, env)

\* def _keys(self, f): the key of the READ node the node f is computed from
RECURSIVE KeysOf(_, _)
KeysOf(fset, at) ==
    LET f == fset[at + 1] IN
    CASE f.type = "READ" -> <<f.key>>
      [] f.type \in {"ADD_FI", "SUB_FI", "CONCAT_FS", "GTEQ_FI"} -> KeysOf(fset, f.left.index)
      [] f.type = "CONCAT_SF" -> KeysOf(fset, f.right.index)
      [] f.type = "EXISTS" -> KeysOf(fset, f.param)

\* ---------------------------------------- building and resolving futures
\* values the caller passes as the right operand, and data the store holds
IntLiterals == {3}
StrLiterals == {"x"}
ReadData ==
    {[existed |-> FALSE, value |-> ""], [existed |-> TRUE, value |-> "5"],
     [existed |-> TRUE, value |-> "7"]}

\* the key the futures of a transaction are built on
FutureKeys == {"k1"}

\* env: a dict from some keys to the data read for them
Envs == UNION {[S -> ReadData] : S \in SUBSET FutureKeys}

\* the handles returned so far in the transaction
Handles(fset) == {Pointer(i) : i \in 0..(Len(fset) - 1)}

\* the record of a call on the future graph: the handle the call returned
\* if it built a node, the mode of a resolution and the value it returned
FutureCall(call, f, transient, returns) ==
    [call EXCEPT !.f = f, !.transient = transient, !.returns = returns]

\* entry of rwset added by get(key, lsd_api=True)
ReadEntry(key, f_index) ==
    [key |-> key, type |-> "READ", r |-> [is_future |-> TRUE, future_index |-> f_index]]

\* get(key, lsd_api=True): lines 233-249 after the assertion of line 226
GetLsd(c, key) ==
    LET f_index == Len(transaction[c].fset) IN
    /\ f_index < MaxNodes
    /\ IF ~GetAllowed(rwset_index[c], key)
       THEN /\ last' = Call(c, "get_lsd", <<key>>, "", <<>>, FALSE, {}, "AssertionError", "")
            /\ UNCHANGED <<rwset_index, transaction>>
       ELSE /\ rwset_index' = [rwset_index EXCEPT
                   ![c] = DictSet(@, {key}, Len(transaction[c].rwset) + 1)]
            /\ transaction' = [transaction EXCEPT
                   ![c].rwset = Append(@, ReadEntry(key, f_index)),
                   ![c].fset = Append(@, FutureNode("READ", key, ValueParam(""),
                                                    ValueParam(""), 0))]
            /\ last' = FutureCall(Call(c, "get_lsd", <<key>>, "", <<>>, FALSE, {}, "ok", ""),
                                  Pointer(f_index), FALSE, PyNone)
    /\ UNCHANGED <<id, transaction_counter, database, phase>>

\* a _binary_op that returned a handle to the node before the new one
binary_op_handle_before(fset, op_type, left, right) ==
    [fset |-> Append(fset, FutureNode(op_type, "", left, right, 0)),
     fptr |-> Pointer(Len(fset) - 1)]

\* def _binary_op(self, op_type, left, right): the fset and the handle
binary_op(fset, op_type, left, right) ==
    [fset |-> Append(fset, FutureNode(op_type, "", left, right, 0)),
     fptr |-> Pointer(Len(fset))]

\* def _unary_op(self, op_type, f)
unary_op(fset, op_type, f) ==
    [fset |-> Append(fset, FutureNode(op_type, "", ValueParam(""), ValueParam(""), f.at)),
     fptr |-> Pointer(Len(fset))]

\* a call of add, sub, gte, concat or exists: one node appended, its handle
\* returned
Build(c, op, built) ==
    /\ Len(transaction[c].fset) < MaxNodes
    /\ transaction' = [transaction EXCEPT ![c].fset = built.fset]
    /\ last' = FutureCall(Call(c, op, <<>>, "", <<>>, FALSE, {}, "ok", ""),
                          built.fptr, FALSE, PyNone)
    /\ UNCHANGED <<id, transaction_counter, rwset_index, database, phase>>

\* def add(self, left, right) with an int on the right
Add(c, left, right) ==
    Build(c, "add", binary_op(transaction[c].fset, "ADD_FI",
                              IndexParam(left.at), ValueParam(ToString(right))))

\* def sub(self, left, right) with an int on the right
Sub(c, left, right) ==
    Build(c, "sub", binary_op(transaction[c].fset, "SUB_FI",
                              IndexParam(left.at), ValueParam(ToString(right))))

\* def gte(self, left, right)
Gte(c, left, right) ==
    Build(c, "gte", binary_op(transaction[c].fset, "GTEQ_FI",
                              IndexParam(left.at), ValueParam(ToString(right))))

\* def concat(self, left, right) with the future on the left
ConcatFs(c, left, right) ==
    Build(c, "concat", binary_op(transaction[c].fset, "CONCAT_FS",
                                 IndexParam(left.at), ValueParam(right)))

\* def concat(self, left, right) with the future on the right
ConcatSf(c, left, right) ==
    Build(c, "concat", binary_op(transaction[c].fset, "CONCAT_SF",
                                 ValueParam(left), IndexParam(right.at)))

\* def exists(self, f)
Exists(c, f) == Build(c, "exists", unary_op(transaction[c].fset, "EXISTS", f))

\* def _resolve(self, f, transient=False, env={}); a durable call is made
\* with the default env, as get_value makes it
Resolve(c, f, transient, env) ==
    LET r == FutureOp(transaction[c].fset, f, transient, env) IN
    /\ transaction' = [transaction EXCEPT ![c].fset = r.fset]
    /\ last' = FutureCall(Call(c, "_resolve", <<>>, "", <<>>, FALSE, {},
                               IF r.raised THEN "raised" ELSE "ok", r.why),
                          Detached("NONE"), transient, r.value)
    /\ UNCHANGED <<id, transaction_counter, rwset_index, database, phase>>

\* what gets(key) of is_true may return: nothing, or the value the store
\* holds
GetsReplies == {d \in ReadData : d.value # "7"}

\* def is_true(self, fptr, assume=None)
IsTrue(c, fptr) ==
    /\ Len(transaction[c].pset) < MaxPredicates
    /\ \E reply \in GetsReplies :
        LET fset == transaction[c].fset
            key == KeysOf(fset, fptr.at)[1]
            f_read_index == transaction[c].rwset[rwset_index[c][key]].r.future_index
            f_read == fset[f_read_index + 1]
            read == IF f_read.resolved
                    THEN fset
                    ELSE [fset EXCEPT ![f_read_index + 1].resolved = TRUE,
                                      ![f_read_index + 1].existed = reply.existed,
                                      ![f_read_index + 1].data =
                                          IF reply.existed THEN reply.value ELSE ""]
            data == [existed |-> read[f_read_index + 1].existed,
                     value |-> read[f_read_index + 1].data]
            env == [k \in {key} |-> data]
            r == FutureOp(read, NodeRef(read, fptr.at), TRUE, env)
            expected == (~r.raised /\ r.value = PyStr("True"))
        IN
        /\ transaction' = [transaction EXCEPT
               ![c].fset = r.fset,
               ![c].pset = Append(@, [keys |-> <<key>>, index |-> fptr.at,
                                      expected |-> expected])]
        /\ last' = FutureCall(Call(c, "is_true", <<key>>, "",
                                   IF f_read.resolved THEN <<>>
                                   ELSE <<StoreCall("gets", <<key>>, <<>>)>>,
                                   FALSE, {}, IF r.raised THEN "raised" ELSE "ok", r.why),
                              Detached("NONE"), TRUE, PyBool(expected))
        /\ UNCHANGED <<id, transaction_counter, rwset_index, database, phase>>

\* ----------------------------------------------- LsdDriver key encoding
no_key(no_o_id, no_d_id, no_w_id, field) ==
    "no-" \o ToString(no_o_id) \o "_" \o ToString(no_d_id) \o "_"
          \o ToString(no_w_id) \o "-" \o field

no_index_key(no_d_id, no_w_id) ==
    "noi-" \o ToString(no_d_id) \o "_" \o ToString(no_w_id)

o_key(o_id, o_d_id, o_w_id, field) ==
    "o-" \o ToString(o_id) \o "_" \o ToString(o_d_id) \o "_"
         \o ToString(o_w_id) \o "-" \o field

ol_key(ol_number, ol_o_id, ol_d_id, ol_w_id, field) ==
    "ol-" \o ToString(ol_number) \o "_" \o ToString(ol_o_id) \o "_"
          \o ToString(ol_d_id) \o "_" \o ToString(ol_w_id) \o "-" \o field

c_key(c_id, c_d_id, c_w_id, field) ==
    "c-" \o ToString(c_id) \o "_" \o ToString(c_d_id) \o "_"
         \o ToString(c_w_id) \o "-" \o field

w_key(w_id, field) == "w-" \o ToString(w_id) \o "-" \o field

\* a district key whose two ids are rendered with nothing between them
d_key_glued(d_id, d_w_id, field) ==
    "d-" \o ToString(d_id) \o ToString(d_w_id) \o "-" \o field

d_key(d_id, d_w_id, field) ==
    "d-" \o ToString(d_id) \o "_" \o ToString(d_w_id) \o "-" \o field

c_index_key(c_d_id, c_w_id, c_last) ==
    "ci-" \o ToString(c_d_id) \o "_" \o ToString(c_w_id) \o "_" \o c_last

h_key(h_uuid, h_c_id, h_c_w_id, h_w_id, field) ==
    "h-" \o h_uuid \o "_" \o ToString(h_c_id) \o "_" \o ToString(h_c_w_id) \o "_"
         \o ToString(h_w_id) \o "-" \o field

o_index_key(o_d_id, o_w_id, o_c_id) ==
    "oi-" \o ToString(o_d_id) \o "_" \o ToString(o_w_id) \o "_" \o ToString(o_c_id)

i_key(i_id, field) == "i-" \o ToString(i_id) \o "-" \o field

s_key(s_i_id, s_w_id, field) ==
    "s-" \o ToString(s_i_id) \o "_" \o ToString(s_w_id) \o "-" \o field

\* ------------------------------------- values the driver reads and writes
\* the ids, counts and whole-number amounts found in the loaded data
WarehouseIds == {1}
TerminalIds == {1}
CarrierIds == {1}
DeliveryDates == {"d1"}
OrderIds == {1}
CustomerIds == {1}
OlCounts == {1, 2}
Amounts == {1}
Balances == {10}
DeliveryCounts == {0}
Numbers == 0..20

\* str(n) and int(s) on integers
IntStr(n) == ToString(n)
ParseInt(s) == CHOOSE n \in Numbers : IntStr(n) = s

\* str(x) and float(s) on floats holding a whole number
FloatStr(n) == ToString(n) \o ".0"
ParseFloat(s) == CHOOSE n \in Numbers : FloatStr(n) = s

\* tpcc_pb2.order: SerializeToString and ParseFromString
OrderBytes(c_id, ol_cnt) == "order(" \o ToString(c_id) \o "," \o ToString(ol_cnt) \o ")"
ParseOrder(s) ==
    CHOOSE o \in [c_id : CustomerIds, ol_cnt : OlCounts] : OrderBytes(o.c_id, o.ol_cnt) = s

\* tpcc_pb2.order_line: SerializeToString and ParseFromString
OrderLineBytes(amount) == "order_line(" \o FloatStr(amount) \o ")"
ParseOrderLine(s) == CHOOSE a \in Amounts : OrderLineBytes(a) = s

\* (exists, value) of a key in a result returned by get or multiget
ExistsIn(ret, k) == \E t \in ret : t[1] = k /\ t[2]
ValueIn(ret, k) == (CHOOSE t \in ret : t[1] = k)[3]

\* ------------------------------------------------ LsdDriver.doDelivery
TheClient == "c1"                       \* self.client

\* the method is left: by return 1, or by an exception that reaches the harness
Leave(how) == [driver EXCEPT !.pc = "idle", !.returned = how]

\* lines 882-888: the parameters are read and the transaction begins
doDelivery_begin ==
    /\ driver.pc = "idle"
    /\ driver.invocation < MaxInvocations
    /\ \E w \in WarehouseIds, t \in TerminalIds, ca \in CarrierIds, dd \in DeliveryDates :
         driver' = [IdleDriver EXCEPT !.pc = "L903", !.invocation = driver.invocation + 1,
                                      !.w_id = w, !.d_id = t, !.o_carrier_id = ca,
                                      !.ol_delivery_d = dd]
    /\ Begin(TheClient)
    /\ began' = began \cup {[id |-> transaction'[TheClient].id,
                              invocation |-> driver'.invocation]}
    /\ UNCHANGED results

\* lines 902-908: the oldest new-order of the district
doDelivery_L903 ==
    /\ driver.pc = "L903"
    /\ LET k == no_index_key(driver.d_id, driver.w_id) IN
       /\ \E reply \in RepliesOf({k}, {IntStr(o) : o \in OrderIds}) : GetR(TheClient, k, reply)
       /\ driver' = IF last'.result # "ok" THEN Leave(last'.result)
                     ELSE IF ~ExistsIn(last'.ret, k) THEN Leave("TypeError")
                     ELSE [driver EXCEPT !.pc = "L911",
                                         !.o_id = ParseInt(ValueIn(last'.ret, k))]
    /\ UNCHANGED <<began, results>>

\* lines 910-916: does the new-order exist
doDelivery_L911 ==
    /\ driver.pc = "L911"
    /\ LET k == no_key(driver.o_id, driver.d_id, driver.w_id, "") IN
       /\ \E reply \in RepliesOf({k}, {"no"}) : GetR(TheClient, k, reply)
       /\ driver' = IF last'.result # "ok" THEN Leave(last'.result)
                     ELSE IF ~ExistsIn(last'.ret, k) THEN [driver EXCEPT !.pc = "L917"]
                     ELSE [driver EXCEPT !.pc = "L924"]
    /\ UNCHANGED <<began, results>>

\* lines 917-918: no new-order, the transaction is aborted
doDelivery_L917 ==
    /\ driver.pc = "L917"
    /\ Abort(TheClient)
    /\ driver' = Leave("1")
    /\ UNCHANGED <<began, results>>

\* line 924
doDelivery_L924 ==
    /\ driver.pc = "L924"
    /\ Remove(TheClient, no_key(driver.o_id, driver.d_id, driver.w_id, ""))
    /\ driver' = [driver EXCEPT !.pc = "L926"]
    /\ UNCHANGED <<began, results>>

\* line 926
doDelivery_L926 ==
    /\ driver.pc = "L926"
    /\ Put(TheClient, no_index_key(driver.d_id, driver.w_id), IntStr(driver.o_id + 1))
    /\ driver' = [driver EXCEPT !.pc = "L942"]
    /\ UNCHANGED <<began, results>>

\* lines 941-951: the order's customer and number of lines
doDelivery_L942 ==
    /\ driver.pc = "L942"
    /\ LET k == o_key(driver.o_id, driver.d_id, driver.w_id, "") IN
       /\ \E reply \in RepliesOf({k}, {OrderBytes(cu, n) : cu \in CustomerIds, n \in OlCounts}) :
             GetR(TheClient, k, reply)
       /\ driver' = IF last'.result # "ok" THEN Leave(last'.result)
                     ELSE IF ~ExistsIn(last'.ret, k) THEN Leave("AssertionError")
                     ELSE LET o == ParseOrder(ValueIn(last'.ret, k)) IN
                          [driver EXCEPT !.pc = "L960", !.c_id = o.c_id,
                                         !.o_ol_cnt = o.ol_cnt]
    /\ UNCHANGED <<began, results>>

\* lines 959-960
doDelivery_L960 ==
    /\ driver.pc = "L960"
    /\ Put(TheClient, o_key(driver.o_id, driver.d_id, driver.w_id, "carrier_id"),
           IntStr(driver.o_carrier_id))
    /\ driver' = [driver EXCEPT !.pc = "L982"]
    /\ UNCHANGED <<began, results>>

\* lines 978-987: the order lines are read together
doDelivery_L982 ==
    /\ driver.pc = "L982"
    /\ LET keys == [n \in 1..driver.o_ol_cnt |->
                        ol_key(n, driver.o_id, driver.d_id, driver.w_id, "")] IN
       /\ \E reply \in RepliesOf(Range(keys), {OrderLineBytes(a) : a \in Amounts}) :
             MultigetR(TheClient, keys, reply)
       /\ driver' = IF last'.result # "ok" THEN Leave(last'.result)
                     ELSE [driver EXCEPT !.pc = "L988", !.mg_res = last'.ret,
                                         !.ol_number = 1, !.ol_total = 0]
    /\ UNCHANGED <<began, results>>

\* lines 988-996: one turn of the loop over the order lines
doDelivery_L988 ==
    /\ driver.pc = "L988"
    /\ LET k == ol_key(driver.ol_number, driver.o_id, driver.d_id, driver.w_id, "")
           dk == ol_key(driver.ol_number, driver.o_id, driver.d_id, driver.w_id, "delivery_d")
       IN IF driver.ol_number > driver.o_ol_cnt
          THEN /\ driver' = [driver EXCEPT !.pc = "L1014"]
               /\ UNCHANGED client_vars
          ELSE IF ~ExistsIn(driver.mg_res, k)
          THEN /\ driver' = Leave("AssertionError")
               /\ UNCHANGED client_vars
          ELSE /\ Put(TheClient, dk, driver.ol_delivery_d)
               /\ driver' = [driver EXCEPT
                      !.ol_total = @ + ParseOrderLine(ValueIn(driver.mg_res, k)),
                      !.ol_number = @ + 1]
    /\ UNCHANGED <<began, results>>

\* lines 1012-1019: the customer's balance and delivery count are read,
\* the balance is written
doDelivery_L1014 ==
    /\ driver.pc = "L1014"
    /\ LET bk == c_key(driver.c_id, driver.d_id, driver.w_id, "balance")
           ck == c_key(driver.c_id, driver.d_id, driver.w_id, "delivery_cnt")
       IN /\ \E rb \in RepliesOf({bk}, {FloatStr(b) : b \in Balances}),
                rc \in RepliesOf({ck}, {IntStr(n) : n \in DeliveryCounts}) :
                MultigetR(TheClient, <<bk, ck>>, rb @@ rc)
          /\ driver' = IF last'.result # "ok" THEN Leave(last'.result)
                        ELSE IF ~ExistsIn(last'.ret, bk) THEN Leave("AssertionError")
                        ELSE [driver EXCEPT !.pc = "L1019", !.mg_res = last'.ret]
    /\ UNCHANGED <<began, results>>

\* lines 1017-1021
doDelivery_L1019 ==
    /\ driver.pc = "L1019"
    /\ LET bk == c_key(driver.c_id, driver.d_id, driver.w_id, "balance")
           ck == c_key(driver.c_id, driver.d_id, driver.w_id, "delivery_cnt")
       IN /\ Put(TheClient, bk, FloatStr(ParseFloat(ValueIn(driver.mg_res, bk)) + driver.ol_total))
          /\ driver' = IF ~ExistsIn(driver.mg_res, ck) THEN Leave("AssertionError")
                        ELSE [driver EXCEPT !.pc = "L1024"]
    /\ UNCHANGED <<began, results>>

\* lines 1022-1024
doDelivery_L1024 ==
    /\ driver.pc = "L1024"
    /\ LET ck == c_key(driver.c_id, driver.d_id, driver.w_id, "delivery_cnt")
       IN Put(TheClient, ck, IntStr(ParseInt(ValueIn(driver.mg_res, ck)) + 1))
    /\ driver' = [driver EXCEPT !.pc = "L1056"]
    /\ UNCHANGED <<began, results>>

\* lines 1056-1061: commit; a rejection is turned into Exception(info)
doDelivery_L1056 ==
    /\ driver.pc = "L1056"
    /\ Commit(TheClient)
    /\ driver' = IF last'.result = "transaction_aborted" THEN Leave("Exception")
                  ELSE Leave("1")
    /\ UNCHANGED <<began, results>>

doDelivery ==
    \/ doDelivery_begin
    \/ doDelivery_L903
    \/ doDelivery_L911
    \/ doDelivery_L917
    \/ doDelivery_L924
    \/ doDelivery_L926
    \/ doDelivery_L942
    \/ doDelivery_L960
    \/ doDelivery_L982
    \/ doDelivery_L988
    \/ doDelivery_L1014
    \/ doDelivery_L1019
    \/ doDelivery_L1024
    \/ doDelivery_L1056

\* ------------------------- values read by the other business transactions
LastNames == {"BARBAR"}
FirstNames == <<"ABLE">>                \* in sorting order
Credits == {"GC", "BC"}
ItemIds == {1}
Thresholds == {10}
NextOrderIds == {2}
Quantities == {5}
NoId == 0                               \* a c_id of None
StockLevelOrders == 20                  \* range(1, 21)

\* tpcc_pb2.customer: SerializeToString and ParseFromString
CustomerBytes(first, credit) == "customer(" \o first \o "," \o credit \o ")"
ParseCustomer(s) ==
    CHOOSE c \in [first : Range(FirstNames), credit : Credits] :
        CustomerBytes(c.first, c.credit) = s

\* tpcc_pb2.customer_index: the customer ids filed under one last name
CustomerIndexes == {<<c>> : c \in CustomerIds}
RECURSIVE JoinIds(_)
JoinIds(ids) ==
    IF ids = <<>> THEN ""
    ELSE ToString(Head(ids)) \o (IF Len(ids) > 1 THEN "," ELSE "") \o JoinIds(Tail(ids))
CustomerIndexBytes(c_ids) == "customer_index(" \o JoinIds(c_ids) \o ")"
ParseCustomerIndex(s) == CHOOSE ids \in CustomerIndexes : CustomerIndexBytes(ids) = s

\* c_ids_firsts.sort(key = lambda t: t[1]): a stable sort by first name
FirstRank(first) == CHOOSE i \in 1..Len(FirstNames) : FirstNames[i] = first
RECURSIVE SortByFirst(_)
SortByFirst(pairs) ==
    IF pairs = <<>> THEN <<>>
    ELSE LET rest == SortByFirst(SubSeq(pairs, 1, Len(pairs) - 1))
             p == pairs[Len(pairs)]
             before == {i \in 1..Len(rest) : FirstRank(rest[i][2]) <= FirstRank(p[2])}
             n == Cardinality(before)
         IN SubSeq(rest, 1, n) \o <<p>> \o SubSeq(rest, n + 1, Len(rest))

\* j = (len(c_ids_firsts) - 1) / 2; c_id = c_ids_firsts[j][0]
MiddleCustomer(c_ids, ret, d_id, w_id) ==
    LET c_ids_firsts == SortByFirst([i \in 1..Len(c_ids) |->
                            <<c_ids[i],
                              ParseCustomer(ValueIn(ret, c_key(c_ids[i], d_id, w_id, ""))).first>>])
        j == (Len(c_ids_firsts) - 1) \div 2
    IN c_ids_firsts[j + 1][1]

\* self.lsd: the driver has no attribute of this name (loadConfig assigns
\* self.client only), so evaluating it raises AttributeError
LsdAttribute == "AttributeError"

\* the begin() of a business transaction, with the ghost record of its id
DriverBegins ==
    /\ Begin(TheClient)
    /\ began' = began \cup {[id |-> transaction'[TheClient].id,
                              invocation |-> driver'.invocation]}
    /\ UNCHANGED results

\* a step of the driver that makes no call on the client
DriverOnly == UNCHANGED <<client_vars, began, results>>

\* ------------------------------------------------- LsdDriver.doNewOrder
\* lines 1075-1088: the caller's item lists passed the assertions of lines
\* 1082-1086; the transaction begins
doNewOrder_begin ==
    /\ driver.pc = "idle"
    /\ driver.invocation < MaxInvocations
    /\ \E w \in WarehouseIds, d \in TerminalIds, cu \in CustomerIds :
         driver' = [IdleDriver EXCEPT !.pc = "L1104", !.invocation = driver.invocation + 1,
                                      !.method = "doNewOrder",
                                      !.w_id = w, !.d_id = d, !.c_id = cu]
    /\ DriverBegins

\* lines 1102-1110: the customer, outside the transaction
doNewOrder_L1104 ==
    /\ driver.pc = "L1104"
    /\ LET k == c_key(driver.c_id, driver.d_id, driver.w_id, "") IN
       \E reply \in RepliesOf({k}, {CustomerBytes(f, cr) : f \in Range(FirstNames), cr \in Credits}) :
           NotxnR(TheClient, "get_notxn", <<k>>, reply)
    /\ driver' = IF last'.result # "ok" THEN Leave(last'.result)
                  ELSE [driver EXCEPT !.pc = "L1111"]
    /\ UNCHANGED <<began, results>>

\* lines 1111-1115: the warehouse, outside the transaction
doNewOrder_L1111 ==
    /\ driver.pc = "L1111"
    /\ LET k == w_key(driver.w_id, "") IN
       \E reply \in Replies({k}) : NotxnR(TheClient, "get_notxn", <<k>>, reply)
    /\ driver' = IF last'.result # "ok" THEN Leave(last'.result)
                  ELSE [driver EXCEPT !.pc = "L1126"]
    /\ UNCHANGED <<began, results>>

\* lines 1124-1127: the district's next order number; int(None) is a TypeError
doNewOrder_L1126 ==
    /\ driver.pc = "L1126"
    /\ LET k == d_key(driver.d_id, driver.w_id, "next_o_id") IN
       /\ \E reply \in RepliesOf({k}, {IntStr(o) : o \in NextOrderIds}) :
             GetR(TheClient, k, reply)
       /\ driver' = IF last'.result # "ok" THEN Leave(last'.result)
                     ELSE IF ~ExistsIn(last'.ret, k) THEN Leave("TypeError")
                     ELSE [driver EXCEPT !.pc = "L1136",
                                         !.d_next_o_id = ParseInt(ValueIn(last'.ret, k))]
    /\ UNCHANGED <<began, results>>

\* line 1136: exists, value = self.lsd.get_notxn(d_key); the rest of the
\* method (lines 1137-1510, commit included) is never reached
doNewOrder_L1136 ==
    /\ driver.pc = "L1136"
    /\ driver' = Leave(LsdAttribute)
    /\ DriverOnly

doNewOrder ==
    \/ doNewOrder_begin
    \/ doNewOrder_L1104
    \/ doNewOrder_L1111
    \/ doNewOrder_L1126
    \/ doNewOrder_L1136

\* ----------------------------------------------- LsdDriver.doOrderStatus
\* lines 1526-1532: the customer is named by id or by last name
doOrderStatus_begin ==
    /\ driver.pc = "idle"
    /\ driver.invocation < MaxInvocations
    /\ \E w \in WarehouseIds, d \in TerminalIds,
          cu \in CustomerIds \cup {NoId}, cl \in LastNames \cup {NoValue} :
         IF (cu # NoId /\ cl = NoValue) \/ (cu = NoId /\ cl # NoValue)
         THEN /\ driver' = [IdleDriver EXCEPT
                      !.pc = IF cl # NoValue THEN "L1537" ELSE "L1570",
                      !.invocation = driver.invocation + 1, !.method = "doOrderStatus",
                      !.w_id = w, !.d_id = d, !.c_id = cu, !.c_last = cl]
              /\ DriverBegins
         ELSE /\ driver' = [IdleDriver EXCEPT
                      !.invocation = driver.invocation + 1, !.method = "doOrderStatus",
                      !.returned = "AssertionError"]
              /\ DriverOnly

\* lines 1536-1541: the customers of that last name, outside the transaction
doOrderStatus_L1537 ==
    /\ driver.pc = "L1537"
    /\ LET k == c_index_key(driver.d_id, driver.w_id, driver.c_last) IN
       /\ \E reply \in RepliesOf({k}, {CustomerIndexBytes(ids) : ids \in CustomerIndexes}) :
             NotxnR(TheClient, "get_notxn", <<k>>, reply)
       /\ driver' = IF last'.result # "ok" THEN Leave(last'.result)
                     ELSE [driver EXCEPT !.pc = "L1547",
                                         !.c_ids = ParseCustomerIndex(ValueIn(last'.ret, k))]
    /\ UNCHANGED <<began, results>>

\* lines 1543-1560: their rows, outside the transaction; the middle one by
\* first name is the customer
doOrderStatus_L1547 ==
    /\ driver.pc = "L1547"
    /\ LET keys == [i \in 1..Len(driver.c_ids) |->
                        c_key(driver.c_ids[i], driver.d_id, driver.w_id, "")] IN
       /\ \E reply \in RepliesOf(Range(keys),
                  {CustomerBytes(f, cr) : f \in Range(FirstNames), cr \in Credits}) :
             NotxnR(TheClient, "multiget_notxn", keys, reply)
       /\ driver' = IF last'.result # "ok" THEN Leave(last'.result)
                     ELSE [driver EXCEPT !.pc = "L1570",
                              !.c_id = MiddleCustomer(driver.c_ids, last'.ret,
                                                      driver.d_id, driver.w_id)]
    /\ UNCHANGED <<began, results>>

\* lines 1569-1572: the customer's balance
doOrderStatus_L1570 ==
    /\ driver.pc = "L1570"
    /\ LET k == c_key(driver.c_id, driver.d_id, driver.w_id, "balance") IN
       /\ \E reply \in RepliesOf({k}, {FloatStr(b) : b \in Balances}) :
             GetR(TheClient, k, reply)
       /\ driver' = IF last'.result # "ok" THEN Leave(last'.result)
                     ELSE IF ~ExistsIn(last'.ret, k) THEN Leave("AssertionError")
                     ELSE [driver EXCEPT !.pc = "L1592"]
    /\ UNCHANGED <<began, results>>

\* lines 1591-1598: the customer's latest order
doOrderStatus_L1592 ==
    /\ driver.pc = "L1592"
    /\ LET k == o_index_key(driver.d_id, driver.w_id, driver.c_id) IN
       /\ \E reply \in RepliesOf({k}, {IntStr(o) : o \in OrderIds}) :
             GetR(TheClient, k, reply)
       /\ driver' = IF last'.result # "ok" THEN Leave(last'.result)
                     ELSE IF ~ExistsIn(last'.ret, k) THEN Leave("AssertionError")
                     ELSE [driver EXCEPT !.pc = "L1601",
                                         !.o_id = ParseInt(ValueIn(last'.ret, k))]
    /\ UNCHANGED <<began, results>>

\* lines 1599-1609: the order and its carrier
doOrderStatus_L1601 ==
    /\ driver.pc = "L1601"
    /\ LET ok == o_key(driver.o_id, driver.d_id, driver.w_id, "")
           ck == o_key(driver.o_id, driver.d_id, driver.w_id, "carrier_id")
       IN /\ \E ro \in RepliesOf({ok}, {OrderBytes(cu, n) : cu \in CustomerIds, n \in OlCounts}),
                rc \in RepliesOf({ck}, {IntStr(ca) : ca \in CarrierIds}) :
                MultigetR(TheClient, <<ok, ck>>, ro @@ rc)
          /\ driver' = IF last'.result # "ok" THEN Leave(last'.result)
                        ELSE IF ~ExistsIn(last'.ret, ck) \/ ~ExistsIn(last'.ret, ok)
                        THEN Leave("AssertionError")
                        ELSE [driver EXCEPT !.pc = "L1645",
                                 !.o_ol_cnt = ParseOrder(ValueIn(last'.ret, ok)).ol_cnt]
    /\ UNCHANGED <<began, results>>

\* lines 1639-1645: the order lines and their delivery dates
doOrderStatus_L1645 ==
    /\ driver.pc = "L1645"
    /\ LET keys == [n \in 1..(2 * driver.o_ol_cnt) |->
                        ol_key((n + 1) \div 2, driver.o_id, driver.d_id, driver.w_id,
                               IF n % 2 = 1 THEN "" ELSE "delivery_d")] IN
       /\ \E reply \in Replies(Range(keys)) : MultigetR(TheClient, keys, reply)
       /\ driver' = IF last'.result # "ok" THEN Leave(last'.result)
                     ELSE [driver EXCEPT !.pc = "L1650", !.mg_res = last'.ret]
    /\ UNCHANGED <<began, results>>

\* line 1650: self.lsd.commit(); except transaction_aborted (line 1651) does
\* not catch the AttributeError and return 1 (line 1655) is never reached
doOrderStatus_L1650 ==
    /\ driver.pc = "L1650"
    /\ driver' = Leave(LsdAttribute)
    /\ DriverOnly

doOrderStatus ==
    \/ doOrderStatus_begin
    \/ doOrderStatus_L1537
    \/ doOrderStatus_L1547
    \/ doOrderStatus_L1570
    \/ doOrderStatus_L1592
    \/ doOrderStatus_L1601
    \/ doOrderStatus_L1645
    \/ doOrderStatus_L1650

\* ------------------------------------------------ LsdDriver.doStockLevel
\* the orders looked at by step 2: d_next_o_id - j for j in range(1, 21)
RecentOrders(d_next_o_id) == [j \in 1..StockLevelOrders |-> d_next_o_id - j]

\* lines 2044-2055: the ol_cnt of the orders found, up to the first one missing
RECURSIVE ol_numbers_from(_, _, _, _)
ol_numbers_from(o_ids, ret, d_id, w_id) ==
    IF o_ids = <<>> \/ ~ExistsIn(ret, o_key(Head(o_ids), d_id, w_id, "")) THEN << >>
    ELSE (Head(o_ids) :> ParseOrder(ValueIn(ret, o_key(Head(o_ids), d_id, w_id, ""))).ol_cnt)
         @@ ol_numbers_from(Tail(o_ids), ret, d_id, w_id)

\* lines 2057-2061, 2073-2075: the order-line keys of the orders in ol_numbers
RECURSIVE OrderLineKeys(_, _, _)
OrderLineKeys(ol_numbers, d_id, w_id) ==
    IF DOMAIN ol_numbers = {} THEN <<>>
    ELSE LET o_id == CHOOSE o \in DOMAIN ol_numbers : TRUE
         IN [n \in 1..ol_numbers[o_id] |-> ol_key(n, o_id, d_id, w_id, "")]
            \o OrderLineKeys([o \in DOMAIN ol_numbers \ {o_id} |-> ol_numbers[o]], d_id, w_id)

\* lines 2089-2092: the stock quantity keys of the items
RECURSIVE StockKeys(_, _)
StockKeys(i_ids, w_id) ==
    IF i_ids = {} THEN <<>>
    ELSE LET i == CHOOSE i \in i_ids : TRUE
         IN <<s_key(i, w_id, "quantity")>> \o StockKeys(i_ids \ {i}, w_id)

\* lines 1984-1990, 2022-2025, 2084-2087, 2121: the step named by tid begins
\* its own transaction; any other tid returns 1 at once
doStockLevel_begin ==
    /\ driver.pc = "idle"
    /\ driver.invocation < MaxInvocations
    /\ \E w \in WarehouseIds, d \in TerminalIds, th \in Thresholds, tid \in 1..4,
          next \in NextOrderIds, items \in SUBSET ItemIds :
         LET called == [IdleDriver EXCEPT
                            !.invocation = driver.invocation + 1, !.method = "doStockLevel",
                            !.w_id = w, !.d_id = d, !.threshold = th, !.tid = tid]
         IN IF tid = 1
            THEN /\ next = CHOOSE n \in NextOrderIds : TRUE
                 /\ items = {}
                 /\ driver' = [called EXCEPT !.pc = "L2000"]
                 /\ DriverBegins
            ELSE IF tid = 2
            THEN /\ items = {}
                 /\ driver' = [called EXCEPT !.pc = "L2039", !.d_next_o_id = next]
                 /\ DriverBegins
            ELSE IF tid = 3
            THEN /\ next = CHOOSE n \in NextOrderIds : TRUE
                 /\ driver' = [called EXCEPT !.pc = "L2093", !.i_ids = items]
                 /\ DriverBegins
            ELSE /\ next = CHOOSE n \in NextOrderIds : TRUE
                 /\ items = {}
                 /\ driver' = [called EXCEPT !.returned = "1"]
                 /\ DriverOnly

\* lines 1999-2000: the district's next order number
doStockLevel_L2000 ==
    /\ driver.pc = "L2000"
    /\ LET k == d_key(driver.d_id, driver.w_id, "next_o_id") IN
       /\ \E reply \in RepliesOf({k}, {IntStr(o) : o \in NextOrderIds}) :
             GetR(TheClient, k, reply)
       /\ driver' = IF last'.result # "ok" THEN Leave(last'.result)
                     ELSE [driver EXCEPT !.pc = "L2008", !.mg_res = last'.ret]
    /\ UNCHANGED <<began, results>>

\* line 2008: self.lsd.commit(); except transaction_aborted (line 2009) does
\* not catch the AttributeError, lines 2013-2021 and return 1 are never reached
doStockLevel_L2008 ==
    /\ driver.pc = "L2008"
    /\ driver' = Leave(LsdAttribute)
    /\ DriverOnly

\* lines 2034-2055: the last twenty orders of the district; the store holds
\* the orders of OrderIds only
doStockLevel_L2039 ==
    /\ driver.pc = "L2039"
    /\ LET o_ids == RecentOrders(driver.d_next_o_id)
           keys == [j \in 1..Len(o_ids) |-> o_key(o_ids[j], driver.d_id, driver.w_id, "")]
           held == {o_key(o, driver.d_id, driver.w_id, "") : o \in OrderIds} \cap Range(keys)
       IN /\ \E reply \in RepliesOf(held, {OrderBytes(cu, n) : cu \in CustomerIds, n \in OlCounts}) :
                MultigetR(TheClient, keys, reply)
          /\ driver' = IF last'.result # "ok" THEN Leave(last'.result)
                        ELSE [driver EXCEPT !.pc = "L2062",
                                 !.ol_numbers = ol_numbers_from(o_ids, last'.ret,
                                                                driver.d_id, driver.w_id)]
    /\ UNCHANGED <<began, results>>

\* lines 2057-2062: the order lines of those orders
doStockLevel_L2062 ==
    /\ driver.pc = "L2062"
    /\ LET keys == OrderLineKeys(driver.ol_numbers, driver.d_id, driver.w_id) IN
       /\ \E reply \in Replies(Range(keys)) : MultigetR(TheClient, keys, reply)
       /\ driver' = IF last'.result # "ok" THEN Leave(last'.result)
                     ELSE [driver EXCEPT !.pc = "L2067", !.mg_res = last'.ret]
    /\ UNCHANGED <<began, results>>

\* lines 2067-2083, 2121: commit, then every order line must have been found
doStockLevel_L2067 ==
    /\ driver.pc = "L2067"
    /\ Commit(TheClient)
    /\ driver' = IF last'.result = "transaction_aborted" THEN Leave("Exception")
                  ELSE IF \E k \in Range(OrderLineKeys(driver.ol_numbers, driver.d_id, driver.w_id)) :
                             ~ExistsIn(driver.mg_res, k)
                  THEN Leave("AssertionError")
                  ELSE Leave("1")
    /\ UNCHANGED <<began, results>>

\* lines 2089-2093: the stock quantities of the items
doStockLevel_L2093 ==
    /\ driver.pc = "L2093"
    /\ LET keys == StockKeys(driver.i_ids, driver.w_id) IN
       /\ \E reply \in RepliesOf(Range(keys), {IntStr(q) : q \in Quantities}) :
             MultigetR(TheClient, keys, reply)
       /\ driver' = IF last'.result # "ok" THEN Leave(last'.result)
                     ELSE [driver EXCEPT !.pc = "L2098", !.mg_res = last'.ret]
    /\ UNCHANGED <<began, results>>

\* lines 2098-2121: commit, then int(value) of every quantity; int(None) is
\* a TypeError
doStockLevel_L2098 ==
    /\ driver.pc = "L2098"
    /\ Commit(TheClient)
    /\ driver' = IF last'.result = "transaction_aborted" THEN Leave("Exception")
                  ELSE IF \E k \in Range(StockKeys(driver.i_ids, driver.w_id)) :
                             ~ExistsIn(driver.mg_res, k)
                  THEN Leave("TypeError")
                  ELSE Leave("1")
    /\ UNCHANGED <<began, results>>

doStockLevel ==
    \/ doStockLevel_begin
    \/ doStockLevel_L2000
    \/ doStockLevel_L2008
    \/ doStockLevel_L2039
    \/ doStockLevel_L2062
    \/ doStockLevel_L2067
    \/ doStockLevel_L2098
    \/ doStockLevel_L2093

\* --------------------------------------------------- LsdDriver.doPayment
PaymentAmounts == {1}
YtdAmounts == {10}
PaymentCounts == {1}
CustomerData == {"old"}
HistoryDates == {"d1"}
BAD_CREDIT == "BC"

\* uuid.uuid1(): a value no other invocation draws
HistoryUuid(invocation) == "u" \o ToString(invocation)

\* ' '.join(map(str, [c_id, c_d_id, c_w_id, d_id, w_id, h_amount])) + '|' + value;
\* the values of CustomerData are shorter than MAX_C_DATA, nothing is cut
NewCustomerData(c_id, c_d_id, c_w_id, d_id, w_id, h_amount, value) ==
    ToString(c_id) \o " " \o ToString(c_d_id) \o " " \o ToString(c_w_id) \o " "
        \o ToString(d_id) \o " " \o ToString(w_id) \o " " \o FloatStr(h_amount)
        \o "|" \o value

\* tpcc_pb2.history().SerializeToString()
HistoryBytes(c_id, c_d_id, c_w_id, d_id, w_id, date, amount, data) ==
    "history(" \o ToString(c_id) \o "," \o ToString(c_d_id) \o "," \o ToString(c_w_id)
        \o "," \o ToString(d_id) \o "," \o ToString(w_id) \o "," \o date \o ","
        \o FloatStr(amount) \o "," \o data \o ")"

\* lines 1670-1680: the customer is named by id or by last name
doPayment_begin ==
    /\ driver.pc = "idle"
    /\ driver.invocation < MaxInvocations
    /\ \E w \in WarehouseIds, d \in TerminalIds, am \in PaymentAmounts,
          cw \in WarehouseIds, cd \in TerminalIds, hd \in HistoryDates,
          cu \in CustomerIds \cup {NoId}, cl \in LastNames \cup {NoValue} :
         LET called == [IdleDriver EXCEPT
                            !.invocation = driver.invocation + 1, !.method = "doPayment",
                            !.w_id = w, !.d_id = d, !.h_amount = am, !.c_w_id = cw,
                            !.c_d_id = cd, !.c_id = cu, !.c_last = cl, !.h_date = hd]
         IN IF (cu # NoId /\ cl = NoValue) \/ (cu = NoId /\ cl # NoValue)
            THEN /\ driver' = [called EXCEPT !.pc = "L1691"]
                 /\ DriverBegins
            ELSE /\ driver' = [called EXCEPT !.returned = "AssertionError"]
                 /\ DriverOnly

\* lines 1689-1695: the warehouse, outside the transaction
doPayment_L1691 ==
    /\ driver.pc = "L1691"
    /\ LET k == w_key(driver.w_id, "") IN
       \E reply \in Replies({k}) : NotxnR(TheClient, "get_notxn", <<k>>, reply)
    /\ driver' = IF last'.result # "ok" THEN Leave(last'.result)
                  ELSE [driver EXCEPT !.pc = "L1696"]
    /\ UNCHANGED <<began, results>>

\* lines 1696-1698: the warehouse's year-to-date amount
doPayment_L1696 ==
    /\ driver.pc = "L1696"
    /\ LET k == w_key(driver.w_id, "ytd") IN
       /\ \E reply \in RepliesOf({k}, {FloatStr(y) : y \in YtdAmounts}) :
             GetR(TheClient, k, reply)
       /\ driver' = IF last'.result # "ok" THEN Leave(last'.result)
                     ELSE IF ~ExistsIn(last'.ret, k) THEN Leave("AssertionError")
                     ELSE [driver EXCEPT !.pc = "L1717",
                                         !.w_ytd = ParseFloat(ValueIn(last'.ret, k))]
    /\ UNCHANGED <<began, results>>

\* lines 1716-1717
doPayment_L1717 ==
    /\ driver.pc = "L1717"
    /\ Put(TheClient, w_key(driver.w_id, "ytd"), FloatStr(driver.w_ytd + driver.h_amount))
    /\ driver' = [driver EXCEPT !.pc = "L1742"]
    /\ UNCHANGED <<began, results>>

\* lines 1740-1746: the district, outside the transaction
doPayment_L1742 ==
    /\ driver.pc = "L1742"
    /\ LET k == d_key(driver.d_id, driver.w_id, "") IN
       \E reply \in Replies({k}) : NotxnR(TheClient, "get_notxn", <<k>>, reply)
    /\ driver' = IF last'.result # "ok" THEN Leave(last'.result)
                  ELSE [driver EXCEPT !.pc = "L1747"]
    /\ UNCHANGED <<began, results>>

\* a district step that read the warehouse's amount once more
doPayment_L1747_w_ytd ==
    /\ driver.pc = "L1747"
    /\ LET k == w_key(driver.w_id, "ytd") IN
       /\ \E reply \in RepliesOf({k}, {FloatStr(y) : y \in YtdAmounts}) :
             GetR(TheClient, k, reply)
       /\ driver' = IF last'.result # "ok" THEN Leave(last'.result)
                     ELSE IF ~ExistsIn(last'.ret, k) THEN Leave("AssertionError")
                     ELSE [driver EXCEPT !.pc = "L1768",
                                         !.d_ytd = ParseFloat(ValueIn(last'.ret, k))]
    /\ UNCHANGED <<began, results>>

\* lines 1747-1749: the district's year-to-date amount
doPayment_L1747 ==
    /\ driver.pc = "L1747"
    /\ LET k == d_key(driver.d_id, driver.w_id, "ytd") IN
       /\ \E reply \in RepliesOf({k}, {FloatStr(y) : y \in YtdAmounts}) :
             GetR(TheClient, k, reply)
       /\ driver' = IF last'.result # "ok" THEN Leave(last'.result)
                     ELSE IF ~ExistsIn(last'.ret, k) THEN Leave("AssertionError")
                     ELSE [driver EXCEPT !.pc = "L1768",
                                         !.d_ytd = ParseFloat(ValueIn(last'.ret, k))]
    /\ UNCHANGED <<began, results>>

\* lines 1767-1768, 1787: the amount is written; the customer is looked up
\* by last name or by id
doPayment_L1768 ==
    /\ driver.pc = "L1768"
    /\ Put(TheClient, d_key(driver.d_id, driver.w_id, "ytd"),
           FloatStr(driver.d_ytd + driver.h_amount))
    /\ driver' = [driver EXCEPT !.pc = IF driver.c_last # NoValue THEN "L1791" ELSE "L1819"]
    /\ UNCHANGED <<began, results>>

\* lines 1788-1795: the customers of that last name, outside the transaction
doPayment_L1791 ==
    /\ driver.pc = "L1791"
    /\ LET k == c_index_key(driver.c_d_id, driver.c_w_id, driver.c_last) IN
       /\ \E reply \in RepliesOf({k}, {CustomerIndexBytes(ids) : ids \in CustomerIndexes}) :
             NotxnR(TheClient, "get_notxn", <<k>>, reply)
       /\ driver' = IF last'.result # "ok" THEN Leave(last'.result)
                     ELSE [driver EXCEPT !.pc = "L1801",
                                         !.c_ids = ParseCustomerIndex(ValueIn(last'.ret, k))]
    /\ UNCHANGED <<began, results>>

\* lines 1797-1816: their rows, outside the transaction; the middle one by
\* first name is the customer
doPayment_L1801 ==
    /\ driver.pc = "L1801"
    /\ LET keys == [i \in 1..Len(driver.c_ids) |->
                        c_key(driver.c_ids[i], driver.c_d_id, driver.c_w_id, "")] IN
       /\ \E reply \in RepliesOf(Range(keys),
                  {CustomerBytes(f, cr) : f \in Range(FirstNames), cr \in Credits}) :
             NotxnR(TheClient, "multiget_notxn", keys, reply)
       /\ driver' = IF last'.result # "ok" THEN Leave(last'.result)
                     ELSE LET cu == MiddleCustomer(driver.c_ids, last'.ret,
                                                   driver.c_d_id, driver.c_w_id)
                          IN [driver EXCEPT !.pc = "L1835", !.c_id = cu,
                                 !.c_credit = ParseCustomer(ValueIn(last'.ret,
                                     c_key(cu, driver.c_d_id, driver.c_w_id, ""))).credit]
    /\ UNCHANGED <<began, results>>

\* lines 1818-1823: the customer's row, outside the transaction
doPayment_L1819 ==
    /\ driver.pc = "L1819"
    /\ LET k == c_key(driver.c_id, driver.c_d_id, driver.c_w_id, "") IN
       /\ \E reply \in RepliesOf({k}, {CustomerBytes(f, cr) : f \in Range(FirstNames), cr \in Credits}) :
             NotxnR(TheClient, "get_notxn", <<k>>, reply)
       /\ driver' = IF last'.result # "ok" THEN Leave(last'.result)
                     ELSE [driver EXCEPT !.pc = "L1835",
                              !.c_credit = ParseCustomer(ValueIn(last'.ret, k)).credit]
    /\ UNCHANGED <<began, results>>

\* lines 1832-1841: balance, payments to date and payment count are read
\* together; float(None) and int(None) are TypeErrors
doPayment_L1835 ==
    /\ driver.pc = "L1835"
    /\ LET bk == c_key(driver.c_id, driver.c_d_id, driver.c_w_id, "balance")
           yk == c_key(driver.c_id, driver.c_d_id, driver.c_w_id, "ytd_payment")
           pk == c_key(driver.c_id, driver.c_d_id, driver.c_w_id, "payment_cnt")
       IN /\ \E rb \in RepliesOf({bk}, {FloatStr(b) : b \in Balances}),
                ry \in RepliesOf({yk}, {FloatStr(y) : y \in YtdAmounts}),
                rp \in RepliesOf({pk}, {IntStr(n) : n \in PaymentCounts}) :
                MultigetR(TheClient, <<bk, yk, pk>>, rb @@ ry @@ rp)
          /\ driver' = IF last'.result # "ok" THEN Leave(last'.result)
                        ELSE IF \E k \in {bk, yk, pk} : ~ExistsIn(last'.ret, k)
                        THEN Leave("TypeError")
                        ELSE [driver EXCEPT !.pc = "L1866", !.mg_res = last'.ret]
    /\ UNCHANGED <<began, results>>

\* lines 1865-1866
doPayment_L1866 ==
    /\ driver.pc = "L1866"
    /\ LET bk == c_key(driver.c_id, driver.c_d_id, driver.c_w_id, "balance") IN
       Put(TheClient, bk, FloatStr(ParseFloat(ValueIn(driver.mg_res, bk)) - driver.h_amount))
    /\ driver' = [driver EXCEPT !.pc = "L1886"]
    /\ UNCHANGED <<began, results>>

\* lines 1885-1886
doPayment_L1886 ==
    /\ driver.pc = "L1886"
    /\ LET yk == c_key(driver.c_id, driver.c_d_id, driver.c_w_id, "ytd_payment") IN
       Put(TheClient, yk, FloatStr(ParseFloat(ValueIn(driver.mg_res, yk)) + driver.h_amount))
    /\ driver' = [driver EXCEPT !.pc = "L1906"]
    /\ UNCHANGED <<began, results>>

\* lines 1905-1906, 1926: the count is written; a customer with bad credit
\* gets the payment added to its data
doPayment_L1906 ==
    /\ driver.pc = "L1906"
    /\ LET pk == c_key(driver.c_id, driver.c_d_id, driver.c_w_id, "payment_cnt") IN
       Put(TheClient, pk, IntStr(ParseInt(ValueIn(driver.mg_res, pk)) + 1))
    /\ driver' = [driver EXCEPT !.pc = IF driver.c_credit = BAD_CREDIT THEN "L1928" ELSE "L1964"]
    /\ UNCHANGED <<began, results>>

\* lines 1927-1936: the customer's data; data + '|' + None is a TypeError
doPayment_L1928 ==
    /\ driver.pc = "L1928"
    /\ LET k == c_key(driver.c_id, driver.c_d_id, driver.c_w_id, "data") IN
       /\ \E reply \in RepliesOf({k}, CustomerData) : GetR(TheClient, k, reply)
       /\ driver' = IF last'.result # "ok" THEN Leave(last'.result)
                     ELSE IF ~ExistsIn(last'.ret, k) THEN Leave("TypeError")
                     ELSE [driver EXCEPT !.pc = "L1937",
                              !.c_data = NewCustomerData(driver.c_id, driver.c_d_id,
                                             driver.c_w_id, driver.d_id, driver.w_id,
                                             driver.h_amount, ValueIn(last'.ret, k))]
    /\ UNCHANGED <<began, results>>

\* line 1937
doPayment_L1937 ==
    /\ driver.pc = "L1937"
    /\ Put(TheClient, c_key(driver.c_id, driver.c_d_id, driver.c_w_id, "data"), driver.c_data)
    /\ driver' = [driver EXCEPT !.pc = "L1964"]
    /\ UNCHANGED <<began, results>>

\* lines 1948-1964: the history row under a fresh uuid; w_name and d_name
\* are the values read at lines 1691 and 1742
doPayment_L1964 ==
    /\ driver.pc = "L1964"
    /\ \E w_name \in StoreValues, d_name \in StoreValues :
         Put(TheClient,
             h_key(HistoryUuid(driver.invocation), driver.c_id, driver.c_w_id, driver.w_id, ""),
             HistoryBytes(driver.c_id, driver.c_d_id, driver.c_w_id, driver.d_id, driver.w_id,
                          driver.h_date, driver.h_amount, w_name \o "    " \o d_name))
    /\ driver' = [driver EXCEPT !.pc = "L1969"]
    /\ UNCHANGED <<began, results>>

\* lines 1969-1974: commit; a rejection is turned into Exception(info)
doPayment_L1969 ==
    /\ driver.pc = "L1969"
    /\ Commit(TheClient)
    /\ driver' = IF last'.result = "transaction_aborted" THEN Leave("Exception")
                  ELSE Leave("1")
    /\ UNCHANGED <<began, results>>

doPayment ==
    \/ doPayment_begin
    \/ doPayment_L1691
    \/ doPayment_L1696
    \/ doPayment_L1717
    \/ doPayment_L1742
    \/ doPayment_L1747
    \/ doPayment_L1768
    \/ doPayment_L1791
    \/ doPayment_L1801
    \/ doPayment_L1819
    \/ doPayment_L1835
    \/ doPayment_L1866
    \/ doPayment_L1886
    \/ doPayment_L1906
    \/ doPayment_L1928
    \/ doPayment_L1937
    \/ doPayment_L1964
    \/ doPayment_L1969

\* ------------------------------------------ calls of the key functions
\* field values whose rendering holds neither '-' nor '_'
KeyIds == {1, 11}                       \* integer ids
KeyNames == {"A", "AA"}                 \* c_last and h_uuid renderings
KeyFields == {"", "ytd"}                \* sub-field names

\* one call of a key function: its name, its rendered arguments, its result
KeyCall(op, args, key) ==
    /\ last' = Call(TheClient, op, args, key, <<>>, FALSE, {}, "ok", "")
    /\ UNCHANGED <<id, transaction_counter, rwset_index, transaction, database,
                   phase, driver, began, results>>

Encode_w ==
    \E w_id \in KeyIds, field \in KeyFields :
        KeyCall("__w_key", <<ToString(w_id), field>>, w_key(w_id, field))

Encode_d ==
    \E d_id, d_w_id \in KeyIds, field \in KeyFields :
        KeyCall("__d_key", <<ToString(d_id), ToString(d_w_id), field>>,
                d_key(d_id, d_w_id, field))

Encode_c ==
    \E c_id, c_d_id, c_w_id \in KeyIds, field \in KeyFields :
        KeyCall("__c_key", <<ToString(c_id), ToString(c_d_id), ToString(c_w_id), field>>,
                c_key(c_id, c_d_id, c_w_id, field))

Encode_ci ==
    \E c_d_id, c_w_id \in KeyIds, c_last \in KeyNames :
        KeyCall("__c_index_key", <<ToString(c_d_id), ToString(c_w_id), c_last>>,
                c_index_key(c_d_id, c_w_id, c_last))

Encode_h ==
    \E h_uuid \in KeyNames, h_c_id, h_c_w_id, h_w_id \in KeyIds, field \in KeyFields :
        KeyCall("__h_key",
                <<h_uuid, ToString(h_c_id), ToString(h_c_w_id), ToString(h_w_id), field>>,
                h_key(h_uuid, h_c_id, h_c_w_id, h_w_id, field))

Encode_no ==
    \E no_o_id, no_d_id, no_w_id \in KeyIds, field \in KeyFields :
        KeyCall("__no_key",
                <<ToString(no_o_id), ToString(no_d_id), ToString(no_w_id), field>>,
                no_key(no_o_id, no_d_id, no_w_id, field))

Encode_noi ==
    \E no_d_id, no_w_id \in KeyIds :
        KeyCall("__no_index_key", <<ToString(no_d_id), ToString(no_w_id)>>,
                no_index_key(no_d_id, no_w_id))

Encode_o ==
    \E o_id, o_d_id, o_w_id \in KeyIds, field \in KeyFields :
        KeyCall("__o_key", <<ToString(o_id), ToString(o_d_id), ToString(o_w_id), field>>,
                o_key(o_id, o_d_id, o_w_id, field))

Encode_oi ==
    \E o_d_id, o_w_id, o_c_id \in KeyIds :
        KeyCall("__o_index_key", <<ToString(o_d_id), ToString(o_w_id), ToString(o_c_id)>>,
                o_index_key(o_d_id, o_w_id, o_c_id))

Encode_ol ==
    \E ol_number, ol_o_id, ol_d_id, ol_w_id \in KeyIds, field \in KeyFields :
        KeyCall("__ol_key",
                <<ToString(ol_number), ToString(ol_o_id), ToString(ol_d_id),
                  ToString(ol_w_id), field>>,
                ol_key(ol_number, ol_o_id, ol_d_id, ol_w_id, field))

Encode_i ==
    \E i_id \in KeyIds, field \in KeyFields :
        KeyCall("__i_key", <<ToString(i_id), field>>, i_key(i_id, field))

Encode_s ==
    \E s_i_id, s_w_id \in KeyIds, field \in KeyFields :
        KeyCall("__s_key", <<ToString(s_i_id), ToString(s_w_id), field>>,
                s_key(s_i_id, s_w_id, field))

\* ------------------------------------------------- util.results.Results
\* the record of one call on the recorder
ResultsCall(op, rid, result) == [op |-> op, id |-> rid, result |-> result]

\* a dict with the key k removed: del d[k]
Del(d, k) == [x \in DOMAIN d \ {k} |-> d[x]]

\* def startTransaction(self, txn)
startTransaction(txn) ==
    LET rid == results.txn_id + 1 IN
    /\ results.txn_id < MaxTxns
    /\ results' = [results EXCEPT
           !.txn_id = rid,
           !.running = [x \in DOMAIN @ \cup {rid} |-> IF x = rid THEN txn ELSE @[x]],
           !.started = @ \cup {rid},
           !.call = ResultsCall("startTransaction", rid, "ok")]
    /\ UNCHANGED <<client_vars, driver, began>>

\* the running dict after abortTransaction: "del self.running[id]" is a
\* comment
RunningAfterAbort(running, rid) == running

\* def abortTransaction(self, id)
abortTransaction(rid) ==
    /\ IF rid \notin DOMAIN results.running
       THEN results' = [results EXCEPT
                !.call = ResultsCall("abortTransaction", rid, "AssertionError")]
       ELSE LET txn_name == results.running[rid] IN
            /\ results.txn_aborts[txn_name] < MaxAborts
            /\ results' = [results EXCEPT
                   !.running = RunningAfterAbort(@, rid),
                   !.txn_aborts[txn_name] = @ + 1,
                   !.aborted = @ \cup {rid},
                   !.call = ResultsCall("abortTransaction", rid, "ok")]
    /\ UNCHANGED <<client_vars, driver, began>>

\* def stopTransaction(self, id, measure)
stopTransaction(rid, measure) ==
    /\ IF rid \notin DOMAIN results.running
       THEN results' = [results EXCEPT
                !.call = ResultsCall("stopTransaction", rid, "AssertionError")]
       ELSE LET txn_name == results.running[rid] IN
            results' = [results EXCEPT
                !.running = Del(@, rid),
                !.txn_times[txn_name] = IF measure THEN @ + 1 ELSE @,
                !.txn_counters[txn_name] = IF measure THEN @ + 1 ELSE @,
                !.counted = IF measure THEN @ \cup {rid} ELSE @,
                !.call = ResultsCall("stopTransaction", rid, "ok")]
    /\ UNCHANGED <<client_vars, driver, began>>

\* ------------------------------------------------------ specifications
\* one client instance, called in any order by its caller
Next ==
    \/ Begin(TheClient) /\ UNCHANGED <<driver, began, results>>
    \/ \E k \in Keys : Get(TheClient, k) /\ UNCHANGED <<driver, began, results>>
    \/ \E klist \in Klists : Multiget(TheClient, klist) /\ UNCHANGED <<driver, began, results>>
    \/ \E k \in Keys, v \in Values : Put(TheClient, k, v) /\ UNCHANGED <<driver, began, results>>
    \/ \E k \in Keys : Remove(TheClient, k) /\ UNCHANGED <<driver, began, results>>
    \/ Commit(TheClient) /\ UNCHANGED <<driver, began, results>>
    \/ Abort(TheClient) /\ UNCHANGED <<driver, began, results>>

Spec == Init /\ [][Next]_vars

\* independent client instances, their calls interleaved
OneKey == "k1"
OneValue == "v1"

NextTwo ==
    \E c \in Clients :
        \/ Begin(c) /\ UNCHANGED <<driver, began, results>>
        \/ Get(c, OneKey) /\ UNCHANGED <<driver, began, results>>
        \/ Put(c, OneKey, OneValue) /\ UNCHANGED <<driver, began, results>>
        \/ Commit(c) /\ UNCHANGED <<driver, began, results>>
        \/ Abort(c) /\ UNCHANGED <<driver, began, results>>

SpecTwo == Init /\ [][NextTwo]_vars

\* independent client instances whose callers keep to begin, operations,
\* commit or abort, their calls interleaved
NextShared ==
    \E c \in Clients :
        \/ Begin(c) /\ UNCHANGED <<driver, began, results>>
        \/ phase[c] = "ACTIVE" /\ Get(c, OneKey) /\ UNCHANGED <<driver, began, results>>
        \/ phase[c] = "ACTIVE" /\ Multiget(c, <<OneKey>>) /\ UNCHANGED <<driver, began, results>>
        \/ phase[c] = "ACTIVE" /\ Put(c, OneKey, OneValue) /\ UNCHANGED <<driver, began, results>>
        \/ phase[c] = "ACTIVE" /\ Remove(c, OneKey) /\ UNCHANGED <<driver, began, results>>
        \/ phase[c] = "ACTIVE" /\ Commit(c) /\ UNCHANGED <<driver, began, results>>
        \/ phase[c] = "ACTIVE" /\ Abort(c) /\ UNCHANGED <<driver, began, results>>

SpecShared == Init /\ [][NextShared]_vars

\* one client instance whose caller also reads outside the transaction
NextNotxn ==
    \/ Begin(TheClient) /\ UNCHANGED <<driver, began, results>>
    \/ \E k \in Keys : Get(TheClient, k) /\ UNCHANGED <<driver, began, results>>
    \/ \E klist \in Klists : Multiget(TheClient, klist) /\ UNCHANGED <<driver, began, results>>
    \/ \E k \in Keys : GetNotxn(TheClient, k) /\ UNCHANGED <<driver, began, results>>
    \/ \E klist \in Klists : MultigetNotxn(TheClient, klist) /\ UNCHANGED <<driver, began, results>>
    \/ \E k \in Keys : Put(TheClient, k, OneValue) /\ UNCHANGED <<driver, began, results>>
    \/ Commit(TheClient) /\ UNCHANGED <<driver, began, results>>

SpecNotxn == Init /\ [][NextNotxn]_vars

\* one client building futures inside transactions and resolving them;
\* the client is the instance whose uuid renders as the first of Uuids
InitFuture == Init /\ id[TheClient] = "0a-1"

Building == phase[TheClient] = "ACTIVE"
Built == transaction[TheClient].fset

NextFuture ==
    \/ Begin(TheClient) /\ UNCHANGED <<driver, began, results>>
    \/ \E key \in FutureKeys :
           Building /\ GetLsd(TheClient, key) /\ UNCHANGED <<driver, began, results>>
    \/ \E left \in Handles(Built), right \in IntLiterals :
           Building /\ Add(TheClient, left, right) /\ UNCHANGED <<driver, began, results>>
    \/ \E left \in Handles(Built), right \in IntLiterals :
           Building /\ Sub(TheClient, left, right) /\ UNCHANGED <<driver, began, results>>
    \/ \E left \in Handles(Built), right \in IntLiterals :
           Building /\ Gte(TheClient, left, right) /\ UNCHANGED <<driver, began, results>>
    \/ \E left \in Handles(Built), right \in StrLiterals :
           Building /\ ConcatFs(TheClient, left, right) /\ UNCHANGED <<driver, began, results>>
    \/ \E left \in StrLiterals, right \in Handles(Built) :
           Building /\ ConcatSf(TheClient, left, right) /\ UNCHANGED <<driver, began, results>>
    \/ \E f \in Handles(Built) :
           Building /\ Exists(TheClient, f) /\ UNCHANGED <<driver, began, results>>
    \/ \E f \in {NodeRef(Built, i) : i \in 0..(Len(Built) - 1)}
                \cup {Pointer(0), Detached("NONE")},
          transient \in BOOLEAN :
         \E env \in (IF transient THEN Envs ELSE {<< >>}) :
           Resolve(TheClient, f, transient, env) /\ UNCHANGED <<driver, began, results>>
    \/ \E fptr \in Handles(Built) :
           /\ fptr.at = Len(Built) - 1
           /\ IsTrue(TheClient, fptr) /\ UNCHANGED <<driver, began, results>>

SpecFuture == InitFuture /\ [][NextFuture]_vars

\* the harness's recorder, called in any order with any id handed out so far
\* or not yet
TxnIds == 1..MaxTxns

NextResults ==
    \/ \E txn \in TransactionTypes : startTransaction(txn)
    \/ \E rid \in TxnIds : abortTransaction(rid)
    \/ \E rid \in TxnIds, measure \in BOOLEAN : stopTransaction(rid, measure)

SpecResults == InitResults /\ [][NextResults]_vars

\* the key functions, called with any arguments in any order
NextKeys ==
    \/ Encode_w
    \/ Encode_d
    \/ Encode_c
    \/ Encode_ci
    \/ Encode_h
    \/ Encode_no
    \/ Encode_noi
    \/ Encode_o
    \/ Encode_oi
    \/ Encode_ol
    \/ Encode_i
    \/ Encode_s

SpecKeys == Init /\ [][NextKeys]_vars

\* the driver's client, called by the business transactions only
NextDriver == doDelivery

SpecDriver == InitDriver /\ [][NextDriver]_vars

\* the driver's client under the business transactions that reach self.lsd
NextReaders == doNewOrder \/ doOrderStatus \/ doStockLevel

SpecReaders == InitDriver /\ [][NextReaders]_vars

\* the driver's client under the two business transactions that write
NextWriters == doDelivery \/ doPayment

SpecWriters == InitDriver /\ [][NextWriters]_vars

\* ================================================================ claims
\* the sequence number rendered at the front of a transaction id
SeqOf(tid) == CHOOSE n \in Numbers : \E u \in Uuids : TxId(n, u) = tid

\* the positions of the rwset entries of client c recorded for key k
EntriesOf(c, k) == {i \in 1..Len(transaction[c].rwset) : transaction[c].rwset[i].key = k}

\* C1: the read-write set never holds two entries for one key, and a key
\* that was read and is then written has exactly one entry, of type
\* READ_WRITE.
C1_OneEntryPerKey ==
    \A c \in Clients :
        /\ \A i, j \in 1..Len(transaction[c].rwset) :
              transaction[c].rwset[i].key = transaction[c].rwset[j].key => i = j
        /\ ( /\ last.client = c
             /\ last.op \in {"put", "remove"}
             /\ last.keys[1] \in DOMAIN last.pre.index
             /\ last.pre.index[last.keys[1]] = None )
           => /\ Cardinality(EntriesOf(c, last.keys[1])) = 1
              /\ \A i \in EntriesOf(c, last.keys[1]) :
                    transaction[c].rwset[i].type = "READ_WRITE"

\* a key written after it was read, with another key already recorded
C1_Witness ==
    /\ last.op = "put"
    /\ last.keys[1] \in DOMAIN last.pre.index
    /\ last.pre.index[last.keys[1]] = None
    /\ Len(transaction[last.client].rwset) = 2

\* C2: get(k) and multiget(klist) fail on their assertion whenever k, or a
\* key of klist, is already in the transaction's dict of accessed keys, be
\* it by a read or by a write.
C2_ReadOfAccessedKeyFails ==
    /\ (last.op = "get" /\ last.keys[1] \in DOMAIN last.pre.index)
         => last.result = "AssertionError"
    /\ (last.op = "multiget" /\ Range(last.keys) \cap DOMAIN last.pre.index # {})
         => last.result = "AssertionError"

\* a second get of a key that was read before
C2_Witness ==
    /\ last.op = "get"
    /\ last.keys[1] \in DOMAIN last.pre.index
    /\ last.pre.index[last.keys[1]] = None
    /\ last.result = "AssertionError"

\* C3: the sequence number begin() puts in the id is greater than that of
\* the previous begin() after an accepted commit or an abort, and the same,
\* with the same id, after a rejected commit.
C3_SequenceAcrossBegins ==
    last.op = "begin" =>
        LET new == transaction[last.client].id
            old == last.pre.id
        IN /\ last.pre.phase \in {"COMMITTED", "ABORTED"} => SeqOf(new) > SeqOf(old)
           /\ last.pre.phase = "ABORTED_RETRYABLE" => SeqOf(new) = SeqOf(old) /\ new = old

\* a begin that follows an accepted commit
C3_Witness ==
    /\ last.op = "begin"
    /\ last.pre.phase = "COMMITTED"
    /\ SeqOf(transaction[last.client].id) = 2

\* C4: when the store answers false to the add, commit() raises
\* transaction_aborted with a reason and leaves the counter as it was.
C4_RejectedCommitRaises ==
    (last.op = "commit" /\ ~last.added) =>
        /\ last.result = "transaction_aborted"
        /\ last.why # ""
        /\ transaction_counter[last.client] = last.pre.counter
        /\ last.pre.phase = "ACTIVE" => phase[last.client] = "ABORTED_RETRYABLE"

\* a commit of an open transaction that the store rejected
C4_Witness ==
    /\ last.op = "commit"
    /\ ~last.added
    /\ last.pre.phase = "ACTIVE"
    /\ transaction[last.client].rwset # <<>>

\* C5: when the store accepts the add, commit() succeeds and the counter
\* grows by one; the first begin() of a fresh client uses 1 and the begin()
\* after an accepted commit uses the next number.
C5_AcceptedCommitAdvances ==
    /\ (last.op = "commit" /\ last.added) =>
          /\ last.result = "ok"
          /\ transaction_counter[last.client] = last.pre.counter + 1
    /\ (last.op = "begin" /\ last.pre.phase = "IDLE") =>
          SeqOf(transaction[last.client].id) = 1
    /\ (last.op = "begin" /\ last.pre.phase = "COMMITTED") =>
          SeqOf(transaction[last.client].id) = SeqOf(last.pre.id) + 1

\* begin(); put(k, v); commit() accepted: the counter stands at 2
C5_Witness ==
    /\ last.op = "commit"
    /\ last.added
    /\ last.pre.phase = "ACTIVE"
    /\ Len(transaction[last.client].rwset) = 1
    /\ transaction[last.client].rwset[1].type = "WRITE"
    /\ transaction_counter[last.client] = 2

\* C6: commit() sends the store exactly one add, keyed by the id begin()
\* assigned and carrying the serialized transaction, and succeeds exactly
\* when the store answered true.
C6_StoreDecidesCommit ==
    last.op = "commit" =>
        LET t == transaction[last.client] IN
        /\ last.calls = <<[cmd |-> "add", args |-> <<t.id>>,
                           payload |-> << <<t.id, t.rwset, t.fwset, t.pset,
                                           t.num_futures, t.fset>> >>]>>
        /\ last.pre.phase = "ACTIVE" => t.id = TxId(last.pre.counter, id[last.client])
        /\ last.result = "ok" <=> last.added
        /\ last.result \in {"ok", "transaction_aborted"}

\* a commit of a transaction with a read-write entry, once rejected
C6_Witness ==
    /\ last.op = "commit"
    /\ last.pre.phase = "ACTIVE"
    /\ ~last.added
    /\ \E i \in 1..Len(transaction[last.client].rwset) :
          transaction[last.client].rwset[i].type = "READ_WRITE"

\* C7: two client instances never hold the same transaction id.
C7_DistinctIdsAcrossClients ==
    \A a, b \in Clients :
        (a # b /\ transaction[a].id # "" /\ transaction[b].id # "")
            => transaction[a].id # transaction[b].id

\* both clients have begun at the same sequence number
C7_Witness ==
    /\ transaction["c1"].id # ""
    /\ transaction["c2"].id # ""
    /\ transaction_counter["c1"] = transaction_counter["c2"]
    /\ phase["c1"] = "ACTIVE"
    /\ phase["c2"] = "ACTIVE"

\* C8: a business transaction that begins after the driver gave up on a
\* rejected one does not begin under the id of the rejected one.
C8_NoReuseAfterGiveUp ==
    (last.op = "begin" /\ last.pre.phase = "ABORTED_RETRYABLE") =>
        ~ \E b \in began :
            /\ b.id = transaction[last.client].id
            /\ b.invocation # driver.invocation

\* C9: after begin() the read-write set, the future set and the dict of
\* accessed keys are empty, whatever the client held before.
C9_BeginClears ==
    last.op = "begin" =>
        /\ rwset_index[last.client] = EmptyIndex
        /\ transaction[last.client].rwset = <<>>
        /\ transaction[last.client].fset = <<>>

\* a begin after a rejected commit of a transaction that wrote a key
C9_Witness ==
    /\ last.op = "begin"
    /\ last.pre.phase = "ABORTED_RETRYABLE"
    /\ Written(last.pre.index) # {}

\* C10: put(k, v) and remove(k) fail when k already has a WRITE or
\* READ_WRITE entry in the transaction.
C10_SecondWriteFails ==
    ( /\ last.op \in {"put", "remove"}
      /\ last.keys[1] \in Written(last.pre.index) )
    => last.result = "AssertionError"

\* the kind of the rwset entry the dict holds for key k, "" when it holds none
KindOf(c, k) ==
    IF k \in Written(rwset_index[c])
    THEN transaction[c].rwset[rwset_index[c][k]].type
    ELSE ""

\* C11: inside a transaction a put or remove of a key that was read gives
\* the key an entry of kind READ_WRITE, a put or remove of a key with no
\* prior access appends a WRITE entry, and a key that was not read (its
\* entry has kind WRITE) never gets kind READ_WRITE.
C11_KindFollowsRead ==
    [][\A c \in Clients, k \in Keys :
         ( /\ last'.client = c
           /\ last'.op \in {"put", "remove"}
           /\ last'.keys = <<k>>
           /\ phase[c] = "ACTIVE" )
         => /\ (k \in DOMAIN rwset_index[c] /\ rwset_index[c][k] = None)
                  => KindOf(c, k)' = "READ_WRITE"
            /\ k \notin DOMAIN rwset_index[c]
                  => /\ KindOf(c, k)' = "WRITE"
                     /\ Len(transaction'[c].rwset) = Len(transaction[c].rwset) + 1
            /\ KindOf(c, k) = "WRITE" => KindOf(c, k)' # "READ_WRITE"]_vars

\* C12: get, multiget, put and remove are accepted only inside a
\* transaction: called before the first begin(), or after commit() or
\* abort() and before the next begin(), they fail and leave the dict of
\* accessed keys as it was.
C12_OnlyWhileActive ==
    ( /\ last.op \in {"get", "multiget", "put", "remove"}
      /\ last.pre.phase # "ACTIVE" )
    => /\ last.result = "AssertionError"
       /\ rwset_index[last.client] = last.pre.index

\* the rwset inside the message a commit handed to add
SubmittedRwset(call) == call.calls[1].payload[1][2]

\* C13: every successful get(k), and every key of a successful multiget,
\* leaves an entry for the key in the rwset, so the rwset a commit submits
\* holds an entry for every key the transaction accessed, read-only keys
\* included.
C13_ReadsRecorded ==
    /\ (last.op \in {"get", "multiget"} /\ last.result = "ok")
           => \A k \in Range(last.keys) : EntriesOf(last.client, k) # {}
    /\ last.op = "commit"
           => \A k \in DOMAIN last.pre.index :
                  \E i \in 1..Len(SubmittedRwset(last)) : SubmittedRwset(last)[i].key = k

\* C14: get_notxn and multiget_notxn leave the rwset and the dict of
\* accessed keys as they were: a key read through them can still be read
\* with get and written with put, and they can be called on the same key
\* again, failing only when the store does not hold the key.
C14_NotxnLeavesBookkeeping ==
    [][\A c \in Clients :
         /\ (last'.client = c /\ last'.op \in {"get_notxn", "multiget_notxn"})
                => /\ rwset_index'[c] = rwset_index[c]
                   /\ transaction'[c] = transaction[c]
                   /\ last'.result = "ok" <=> Range(last'.keys) \subseteq last'.found
         /\ ( /\ last.client = c
              /\ last.op \in {"get_notxn", "multiget_notxn"}
              /\ last'.client = c
              /\ last'.op \in {"get", "put"}
              /\ last'.keys[1] \in Range(last.keys)
              /\ last'.keys[1] \notin DOMAIN last.pre.index )
                => /\ last'.result = "ok"
                   /\ last'.keys[1] \in DOMAIN rwset_index'[c]]_vars

\* a multiget_notxn naming one key twice, inside a transaction that has
\* read one key and written another, neither of them the key named
C14_Witness ==
    /\ last.op = "multiget_notxn"
    /\ last.result = "ok"
    /\ Len(last.keys) = 2
    /\ last.keys[1] = last.keys[2]
    /\ phase[last.client] = "ACTIVE"
    /\ rwset_index[last.client] # EmptyIndex
    /\ last.keys[1] \notin DOMAIN rwset_index[last.client]

\* C15: get_notxn fails when the store does not hold the key and
\* multiget_notxn fails when it does not hold one of the keys; get and
\* multiget do not fail on such a key and return (False, None) for it.
C15_AbsentKeys ==
    /\ last.op \in {"get_notxn", "multiget_notxn"}
           => (last.result = "AssertionError"
                   <=> \E k \in Range(last.keys) : k \notin last.found)
    /\ (last.op \in {"get", "multiget"} /\ Range(last.keys) \cap DOMAIN last.pre.index = {})
           => /\ last.result = "ok"
              /\ \A k \in Range(last.keys) :
                     k \notin last.found => <<k, FALSE, NoValue>> \in last.ret

\* a multiget_notxn of two keys of which the store holds one
C15_Witness ==
    /\ last.op = "multiget_notxn"
    /\ last.result = "AssertionError"
    /\ Range(last.keys) \cap last.found # {}
    /\ Range(last.keys) \ last.found # {}

\* C16: abort() undoes the announce begin() made at the store: the abort
\* of a transaction whose begin() issued a store call keyed by the
\* transaction id issues a store call keyed by that id in turn.
C16_AbortRetractsAnnounce ==
    (last.op = "abort" /\ last.pre.phase = "ACTIVE")
    => \E i \in 1..Len(last.calls) : last.calls[i].args[1] = last.pre.id

\* C17: a begin() that follows a rejected commit does not announce the
\* transaction id again: it issues no store call keyed by the id the
\* rejected attempt was announced under.
C17_AnnouncedOnce ==
    (last.op = "begin" /\ last.pre.phase = "ABORTED_RETRYABLE")
    => \A i \in 1..Len(last.calls) : last.calls[i].args[1] # last.pre.id

\* C18: abort() is terminal: it sends nothing to the store (no add for
\* the aborted id), raises nothing, advances the counter, and the next
\* begin() starts a transaction under the next sequence number.
C18_AbortIsTerminal ==
    /\ last.op = "abort"
           => /\ last.calls = <<>>
              /\ last.result = "ok"
              /\ transaction_counter[last.client] = last.pre.counter + 1
              /\ phase[last.client] # "ABORTED_RETRYABLE"
    /\ (last.op = "begin" /\ last.pre.phase = "ABORTED")
           => /\ transaction[last.client].id # last.pre.id
              /\ SeqOf(transaction[last.client].id) = SeqOf(last.pre.id) + 1

\* the begin that follows the abort of a transaction that had written
C18_Witness ==
    /\ last.op = "begin"
    /\ last.pre.phase = "ABORTED"
    /\ Written(last.pre.index) # {}

\* C19: a transaction that finishes through _done() has its fields
\* discarded: right after an accepted commit() or an abort() the rwset,
\* the fset and the dict of accessed keys are empty.
C19_DoneDiscards ==
    ( /\ last.pre.phase = "ACTIVE"
      /\ \/ last.op = "commit" /\ last.result = "ok"
         \/ last.op = "abort" )
    => /\ rwset_index[last.client] = EmptyIndex
       /\ transaction[last.client].rwset = <<>>
       /\ transaction[last.client].fset = <<>>

\* C20: client instances share no mutable state: a call on one client
\* leaves the counter, the identifier, the transaction message (id, rwset,
\* fset) and the dict of accessed keys of every other client unchanged.
C20_ClientsShareNothing ==
    [][\A c \in Clients :
         last'.client # c
         => /\ transaction_counter'[c] = transaction_counter[c]
            /\ id'[c] = id[c]
            /\ transaction'[c] = transaction[c]
            /\ rwset_index'[c] = rwset_index[c]]_vars

\* one client begins again while the other is inside a transaction with
\* a key accessed, the beginner having accessed the same key before
C20_Witness ==
    /\ last.op = "begin"
    /\ last.pre.index # EmptyIndex
    /\ \E c \in Clients :
          /\ c # last.client
          /\ phase[c] = "ACTIVE"
          /\ DOMAIN rwset_index[c] = DOMAIN last.pre.index

\* the names the key functions are called by
KeyOps ==
    {"__w_key", "__d_key", "__c_key", "__c_index_key", "__h_key", "__no_key",
     "__no_index_key", "__o_key", "__o_index_key", "__ol_key", "__i_key", "__s_key"}

\* C21: for field values whose rendering holds neither '-' nor '_', two
\* calls of key functions give the same key exactly when they are the same
\* function called with the same field values, within one table and across
\* tables and secondary indexes.
C21_KeyEncodingInjective ==
    [][(last.op \in KeyOps /\ last'.op \in KeyOps)
       => (last.value = last'.value
              <=> (last.op = last'.op /\ last.keys = last'.keys))]_vars

\* an order-line key whose first two ids would read alike without the '_'
C21_Witness ==
    /\ last.op = "__ol_key"
    /\ last.keys[1] = "1"
    /\ last.keys[2] = "11"
    /\ last.value = "ol-1_11_1_1-ytd"

\* ------------------------------------------------ claims on the future graph
\* the nodes of the transaction's future set, as _resolve receives them
Nodes == {NodeRef(Built, at) : at \in 0..(Len(Built) - 1)}

\* C22: resolving the same node twice in durable mode (transient = false)
\* returns the identical value both times, and the second resolution enters
\* no operation but the node's own (it returns the cached value without
\* recursing into the operands), for READ, the binary operations and EXISTS
C22_DurableTwiceSame ==
    \A f \in Nodes, env \in Envs :
        LET first == FutureOp(Built, f, FALSE, env)
            second == FutureOp(first.fset, f, FALSE, env)
        IN  ~first.raised =>
                /\ ~second.raised
                /\ second.value = first.value
                /\ second.visited = {f.at}

\* the resolved flag of every node of a future set, in order
Flags(fset) == [i \in 1..Len(fset) |-> fset[i].resolved]

\* C23: a resolution in transient mode leaves the resolved flag of every
\* node as it was, the addressed node and the operands it visited included;
\* in is_true the only flag that changes is the one is_true itself sets on
\* the READ node it fetched from the store, before it resolves
C23_TransientKeepsFlags ==
    [][/\ (last'.op = "_resolve" /\ last'.transient) =>
              Flags(Built') = Flags(Built)
       /\ last'.op = "is_true" =>
              \A i \in 1..Len(Built) :
                  Built'[i].resolved # Built[i].resolved =>
                      /\ Built[i].type = "READ"
                      /\ last'.calls # <<>>]_vars

\* a transient resolution has evaluated an EXISTS node and its READ operand
\* from env, and both are still unresolved
C23_Witness ==
    /\ last.op = "_resolve" /\ last.transient /\ last.result = "ok"
    /\ last.returns = PyStr("True")
    /\ \E i, j \in 1..Len(Built) :
          /\ Built[i].type = "READ" /\ Built[i].existed /\ ~Built[i].resolved
          /\ Built[j].type = "EXISTS" /\ Built[j].value = "True"
          /\ ~Built[j].resolved

\* the ADD_FI and SUB_FI nodes whose left operand is a READ node, neither
\* of them resolved yet
Sums ==
    {f \in Nodes : /\ f.type \in {"ADD_FI", "SUB_FI"}
                   /\ ~Built[f.at + 1].resolved
                   /\ Built[Built[f.at + 1].left.index + 1].type = "READ"
                   /\ ~Built[Built[f.at + 1].left.index + 1].resolved}

Probes ==
    {f \in Nodes : /\ f.type = "EXISTS"
                   /\ ~Built[f.at + 1].resolved
                   /\ Built[Built[f.at + 1].param + 1].type = "READ"
                   /\ ~Built[Built[f.at + 1].param + 1].resolved}
ProbedKey(f) == Built[Built[f.at + 1].param + 1].key

\* C25 as stated: resolving an EXISTS node over a READ node bound to a key
\* absent from env does not fail and yields the existence-false value
C25_AbsentFromEnvIsFalse ==
    \A f \in Probes, env \in Envs :
        LET r == FutureOp(Built, f, TRUE, env) IN
        ProbedKey(f) \notin DOMAIN env =>
            (~r.raised /\ r.value = PyStr("False"))

\* C25 as amended: resolving an EXISTS node over a READ node bound to a key
\* that env records as not existing yields "False", without failing and
\* entering no operation but exists_op and read_op; when env has no entry
\* for the key the resolution fails on read_op's assertion and leaves the
\* graph as it was
C25_NotExistingIsFalse ==
    \A f \in Probes, env \in Envs :
        LET r == FutureOp(Built, f, TRUE, env)
            K == ProbedKey(f)
        IN  /\ (K \in DOMAIN env /\ ~env[K].existed) =>
                   /\ ~r.raised
                   /\ r.value = PyStr("False")
                   /\ r.visited = {f.at, Built[f.at + 1].param}
            /\ K \notin DOMAIN env =>
                   /\ r.raised
                   /\ r.why = "assert key in env"
                   /\ r.fset = Built

\* exists(get(K)) was resolved against an env that records K as not
\* existing and returned "False"
C25_Witness ==
    /\ last.op = "_resolve" /\ last.transient /\ last.returns = PyStr("False")
    /\ \E f \in Probes : Built[f.at + 1].value = "False"

\* the READ node the node at index at is computed from
ReadOf(at) == transaction[TheClient].rwset[
                  rwset_index[TheClient][KeysOf(Built, at)[1]]].r.future_index

\* C26 as stated: a durable resolution (transient = false) succeeds on a
\* graph whose nodes are not resolved yet, with the READ values taken from
\* env, and leaves every node it evaluated resolved
C26_DurableResolvesFromEnv ==
    \A f \in Nodes, env \in Envs :
        LET r == FutureOp(Built, f, FALSE, env) IN
        (/\ \A i \in 1..Len(Built) : ~Built[i].resolved
         /\ ~FutureOp(Built, f, TRUE, env).raised) =>
            /\ ~r.raised
            /\ \A at \in r.visited : r.fset[at + 1].resolved

\* C26 as amended: a durable resolution never takes a value from env. While
\* the READ node under the addressed node is unresolved it fails and marks
\* nothing resolved (a READ node fails on `assert transient`); once that
\* READ node was resolved, by is_true, a durable resolution that succeeds
\* leaves the addressed node and every node it evaluated resolved, the
\* addressed node holding the value returned, whatever env is passed
C26_DurableWritesBack ==
    \A f \in Nodes, env \in Envs :
        LET r == FutureOp(Built, f, FALSE, env)
            node == Built[f.at + 1]
        IN  /\ r = FutureOp(Built, f, FALSE, << >>)
            /\ ~Built[ReadOf(f.at) + 1].resolved =>
                   /\ r.raised
                   /\ Flags(r.fset) = Flags(Built)
                   /\ f.type = "READ" => r.why = "assert transient"
            /\ ~r.raised =>
                   /\ Built[ReadOf(f.at) + 1].resolved
                   /\ \A at \in r.visited : r.fset[at + 1].resolved
                   /\ (f.type # "READ" /\ ~node.resolved) =>
                          r.value = PyStr(r.fset[f.at + 1].value)

\* a durable resolution of add(get(K), 3) succeeded after is_true had
\* resolved the READ node, and the ADD_FI node holds the sum, resolved
C26_Witness ==
    /\ last.op = "_resolve" /\ ~last.transient /\ last.result = "ok"
    /\ \E f \in Nodes :
          /\ f.type = "ADD_FI"
          /\ Built[f.at + 1].resolved
          /\ last.returns = PyStr(Built[f.at + 1].value)
          /\ Built[ReadOf(f.at) + 1].resolved

\* the keys of the entries of a rwset, in the order of the entries
KeysIn(rws) == [i \in 1..Len(rws) |-> rws[i].key]

\* C27: the entries of the rwset a commit submits stand in the order in
\* which their keys were first written in the transaction: put and remove
\* add the entry of a key not written before at the end, a later put or
\* remove of a recorded key leaves every entry at its place and adds none,
\* no call but begin changes the order, and commit submits the rwset as it
\* stands
C27_FirstWriteOrder ==
    [][\A c \in Clients :
         LET rws == transaction[c].rwset
             k == last'.keys[1]
         IN
         /\ (last'.client = c /\ last'.op \in {"put", "remove"}) =>
                IF \E i \in 1..Len(rws) : rws[i].key = k
                THEN KeysIn(transaction'[c].rwset) = KeysIn(rws)
                ELSE KeysIn(transaction'[c].rwset) = Append(KeysIn(rws), k)
         /\ (last'.client = c /\ last'.op \in {"get", "multiget", "commit", "abort"}) =>
                KeysIn(transaction'[c].rwset) = KeysIn(rws)
         /\ (last'.client = c /\ last'.op = "commit") =>
                SubmittedRwset(last') = rws]_vars

\* a commit submitted two entries, after the key of the first entry was
\* written a second time
C27_Witness ==
    /\ last.op = "commit"
    /\ Len(SubmittedRwset(last)) = 2
    /\ SubmittedRwset(last)[1].type = "READ_WRITE"
    /\ SubmittedRwset(last)[1].key \notin
           {k \in DOMAIN last.pre.index : last.pre.index[k] = None}
    /\ last.pre.index[SubmittedRwset(last)[1].key] = 1

\* the value a resolved node holds: the data of a READ node, the value of
\* an operator node
Cached(node) ==
    IF node.type = "READ" THEN DataValue(node.existed, node.data)
    ELSE PyStr(node.value)

\* C28: resolving a node that is already resolved returns its cached value,
\* entering no operation but the node's own and changing nothing, whatever
\* env holds and in transient mode too, for every opcode; so a transient
\* resolution after a durable one returns what the durable one returned,
\* even against another env
C28_ResolvedShortCircuits ==
    \A f \in Nodes, transient \in BOOLEAN, env \in Envs :
        /\ Built[f.at + 1].resolved =>
               LET r == FutureOp(Built, f, transient, env) IN
               /\ ~r.raised
               /\ r.value = Cached(Built[f.at + 1])
               /\ r.visited = {f.at}
               /\ r.fset = Built
        /\ LET durable == FutureOp(Built, f, FALSE, << >>) IN
           ~durable.raised =>
               FutureOp(durable.fset, f, TRUE, env).value = durable.value

\* C29: no node of the future set has the type POINTER or NONE, whatever
\* get, add, sub, gte, concat and exists calls built it, and resolving an
\* object whose own type is POINTER or NONE (a handle, or an empty future)
\* fails at once on `assert False`: no value is returned, no operation of a
\* node is entered and the graph is left as it was
C29_PointerAndNoneFailFast ==
    /\ \A i \in 1..Len(Built) : Built[i].type \notin {"POINTER", "NONE"}
    /\ \A f \in Handles(Built) \cup {Detached("POINTER"), Detached("NONE")},
          transient \in BOOLEAN, env \in Envs :
          LET r == FutureOp(Built, f, transient, env) IN
          /\ r.raised
          /\ r.why = "assert False"
          /\ r.visited = {}
          /\ r.fset = Built
    /\ (last.op = "_resolve" /\ last.why = "assert False") =>
          (last.result = "raised" /\ last.returns = PyNone)

\* _resolve was handed a handle of a graph with an operator node, and
\* raised
C29_Witness ==
    /\ last.op = "_resolve" /\ last.result = "raised"
    /\ last.why = "assert False"
    /\ \E i \in 1..Len(Built) : Built[i].type # "READ"

\* the indexes of other nodes a node stores as its operands
Operands(node) ==
    (IF node.type \in {"ADD_FI", "SUB_FI", "GTEQ_FI", "CONCAT_FS", "CONCAT_SF"}
     THEN {p.index : p \in {q \in {node.left, node.right} : q.is_index}}
     ELSE {})
    \cup (IF node.type = "EXISTS" THEN {node.param} ELSE {})

\* what a node is built from: its type, key and operands, not its result
Shape(node) == <<node.type, node.key, node.left, node.right, node.param>>

BuildingCalls == {"get_lsd", "add", "sub", "gte", "concat", "exists"}

\* C30: the future set is append-only and backward-referencing. Within a
\* transaction a graph-building call appends exactly one node, at the index
\* equal to the number of nodes before it, and returns the handle of that
\* index; no call but begin removes a node or changes the type, key or
\* operands of a node already there; and every operand index stored in a
\* node is smaller than the node's own index
C30_AppendOnlyBackward ==
    [][/\ \A i \in 1..Len(Built') :
              \A p \in Operands(Built'[i]) : 0 <= p /\ p < i - 1
       /\ last'.op # "begin" =>
              /\ Len(Built') >= Len(Built)
              /\ \A i \in 1..Len(Built) : Shape(Built'[i]) = Shape(Built[i])
       /\ (last'.op \in BuildingCalls /\ last'.result = "ok") =>
              /\ Len(Built') = Len(Built) + 1
              /\ last'.f = Pointer(Len(Built))
       /\ last'.op \in {"_resolve", "is_true"} => Len(Built') = Len(Built)]_vars

\* the second node of a transaction was built on the handle of the first
C30_Witness ==
    /\ last.op \in BuildingCalls \ {"get_lsd"}
    /\ last.f = Pointer(1)
    /\ Len(Built) = 2
    /\ Operands(Built[2]) = {0}

\* what a resolution hands back to its caller
Answer(r) == <<r.raised, r.value>>

\* C31 as stated: after a resolution in transient mode every node of the
\* future set is what it was before the call: resolved flag, cached value
\* and the data stored in a READ node
C31_TransientLeavesNodes ==
    \A f \in Nodes, env \in Envs :
        FutureOp(Built, f, TRUE, env).fset = Built

\* C31 as amended: a resolution in transient mode caches nothing a later
\* resolution would use. It overwrites the value of the operator nodes and
\* the data of the READ node it evaluates, but leaves every resolved flag
\* and every node it did not enter as they were, and any resolution that
\* follows, of any node, in either mode and against any env, answers as it
\* would have answered without the transient call. The flags and the nodes
\* not entered are compared in every state; the answers of the resolutions
\* that follow are compared for the graphs as they stand after a
\* graph-building call and after is_true
C31_TransientCachesNothing ==
    \A f \in Nodes, env \in Envs :
        LET r == FutureOp(Built, f, TRUE, env) IN
        /\ Flags(r.fset) = Flags(Built)
        /\ \A i \in 1..Len(Built) : (i - 1) \notin r.visited => r.fset[i] = Built[i]
        /\ last.op \in BuildingCalls \cup {"is_true"} =>
              \A g \in Nodes, transient \in BOOLEAN, later \in Envs :
                  Answer(FutureOp(r.fset, g, transient, later))
                      = Answer(FutureOp(Built, g, transient, later))

\* a transient resolution left "8" in an unresolved ADD_FI node, and the
\* same node resolved against an env holding "7" answers "10"
C31_Witness ==
    /\ last.op = "_resolve" /\ last.transient /\ last.returns = PyStr("8")
    /\ \E f \in Nodes :
          /\ f.type = "ADD_FI"
          /\ Built[f.at + 1].value = "8" /\ ~Built[f.at + 1].resolved
          /\ \E later \in Envs :
                FutureOp(Built, f, TRUE, later).value = PyStr("10")

\* a key list that names some key more than once
Repeats(klist) == \E i, j \in 1..Len(klist) : i # j /\ klist[i] = klist[j]

\* C32: multiget(klist) with the same key twice in klist fails on its
\* assertion, as the second of two get calls on that key does
C32_RepeatedKeyRejected ==
    (last.op = "multiget" /\ Repeats(last.keys)) => last.result = "AssertionError"

\* C33: in the recorder an aborted transaction is discarded: after
\* abortTransaction(id) the id is not among the running transactions, a
\* later stopTransaction(id) cannot record it, and no id is counted both in
\* txn_aborts and in txn_counters
C33_AbortDiscards ==
    /\ results.aborted \cap DOMAIN results.running = {}
    /\ (results.call.op = "stopTransaction" /\ results.call.id \in results.aborted)
           => results.call.result = "AssertionError"
    /\ results.aborted \cap results.counted = {}

\* C34: a get or multiget that fails on its assertion changes nothing: the
\* dict of accessed keys and the transaction message are what they were
\* (no key of klist becomes marked, the fresh ones included), the store is
\* what it was and no call was made on the store connection
C34_FailedReadChangesNothing ==
    [][(last'.op \in {"get", "multiget"} /\ last'.result = "AssertionError") =>
           /\ rwset_index' = rwset_index
           /\ transaction' = transaction
           /\ database' = database
           /\ last'.calls = <<>>]_vars

\* a multiget failed on a list that names an accessed key and a fresh one,
\* and the fresh key is still fresh
C34_Witness ==
    /\ last.op = "multiget" /\ last.result = "AssertionError"
    /\ \E k \in Range(last.keys) : k \in DOMAIN last.pre.index
    /\ \E k \in Range(last.keys) : k \notin DOMAIN rwset_index[last.client]

ReadCalls == {"get", "multiget", "get_notxn", "multiget_notxn"}

\* C35: the transaction id changes only inside begin, which sets it to the
\* counter and the client's uuid; every read that get, multiget, get_notxn
\* or multiget_notxn sends carries that id as the first element of its key
\* list, and commit hands the same id to add as the key. So within one
\* attempt the reads and the commit name one id
C35_OneIdPerAttempt ==
    [][\A c \in Clients :
         /\ ~(last'.client = c /\ last'.op = "begin") =>
                transaction'[c].id = transaction[c].id
         /\ (last'.client = c /\ last'.op = "begin") =>
                transaction'[c].id = TxId(transaction_counter[c], id[c])
         /\ (last'.client = c /\ last'.op \in ReadCalls /\ last'.calls # <<>>) =>
                /\ Len(last'.calls) = 1
                /\ last'.calls[1].cmd = "gets_many"
                /\ last'.calls[1].args[1] = transaction[c].id
         /\ (last'.client = c /\ last'.op = "commit") =>
                /\ Len(last'.calls) = 1
                /\ last'.calls[1].cmd = "add"
                /\ last'.calls[1].args = <<transaction[c].id>>
                /\ last'.calls[1].payload[1][1] = transaction[c].id]_vars

\* in the second attempt of a client, after a write, a read outside the
\* transaction carried the id of that attempt
C35_Witness ==
    /\ last.op = "multiget_notxn" /\ last.result = "ok"
    /\ phase[last.client] = "ACTIVE"
    /\ transaction_counter[last.client] = 2
    /\ transaction[last.client].rwset # <<>>
    /\ last.calls[1].args[1] = TxId(2, id[last.client])

DataFailures == {"AssertionError", "TypeError", "Exception", "transaction_aborted"}

\* C37: a business transaction that called begin() and met no missing row
\* and no rejected commit has ended its attempt, by one commit() or abort()
\* on the driver's client, when the method is left; no invocation leaves a
\* transaction open.
C37_AttemptEndedOnLeave ==
    ( /\ driver.pc = "idle"
      /\ \E b \in began : b.invocation = driver.invocation
      /\ driver.returned \notin DataFailures )
    => /\ phase[TheClient] \in {"COMMITTED", "ABORTED"}
       /\ last.op \in {"commit", "abort"}

\* C38: within one invocation of doDelivery or doPayment no key is passed
\* to get or multiget twice, none is put or removed twice and none is read
\* after it was written, so no get or multiget of theirs fails its
\* assertion.
C38_SingleAccess ==
    /\ last.op \in {"get", "multiget"} =>
          /\ \A i \in 1..Len(last.keys) : last.keys[i] \notin DOMAIN last.pre.index
          /\ \A i, j \in 1..Len(last.keys) : last.keys[i] = last.keys[j] => i = j
          /\ last.result # "AssertionError"
    /\ last.op \in {"put", "remove"} => last.keys[1] \notin Written(last.pre.index)

\* a payment of a customer with bad credit, found by last name, has
\* committed after reading six keys and writing seven
C38_Witness ==
    /\ driver.method = "doPayment"
    /\ driver.returned = "1"
    /\ driver.c_credit = BAD_CREDIT
    /\ driver.c_last # NoValue
    /\ last.op = "commit"
    /\ Cardinality(Written(rwset_index[TheClient])) = 7
    /\ Cardinality(DOMAIN rwset_index[TheClient]) = 7

====
